---- MODULE Spec2Model ----
(***************************************************************************)
(* ResearchBuddy: the document-ingestion and assistant-exchange pipeline.  *)
(*                                                                         *)
(* Strings are sequences of one-character strings (<<"H", "i">> is "Hi"),  *)
(* so that the regular expressions and the JSON parser of the program are  *)
(* modelled character by character.  A character that TLA+ cannot write    *)
(* (backspace, the grave accent, a \uXXXX escape) is a longer string       *)
(* standing for one character.                                             *)
(***************************************************************************)
EXTENDS Integers, Sequences, FiniteSets, TLC

VARIABLES
    markdown,       \* parseJsonFromMarkdown: its argument
    dpc,            \* parseJsonFromMarkdown: position in the cascade
    jsonStr,        \* parseJsonFromMarkdown: the trimmed fenced contents
    tried,          \* parseJsonFromMarkdown: strategies attempted so far, in order
    result,         \* parseJsonFromMarkdown: the returned value
    variant,        \* which component runs: "web" (ResearchBuddy) or "native"
    devMode,        \* process.env.NODE_ENV === "development"
    apiKey,         \* GEMINI_API_KEY is configured
    pdfFile,        \* useState: the stored document file, or null
    pdfText,        \* useState: the extracted text of the document
    numPages,       \* useState: the page count, or null
    messages,       \* useState: the conversation, a sequence of turns
    currentMessage, \* useState: the draft in the input box
    isLoading,      \* useState: the pending indicator
    uploads,        \* the calls of handleFileUpload, each with its locals
    requests,       \* the calls of sendMessage, each with its locals
    mdInput,        \* markdownToText: its argument
    mdStep,         \* markdownToText: how many times it has been applied
    mdOnce,         \* markdownToText(mdInput)
    mdTwice         \* markdownToText(markdownToText(mdInput))

decodeVars == <<markdown, dpc, jsonStr, tried, result>>

configVars == <<variant, devMode, apiKey>>

documentVars == <<pdfFile, pdfText, numPages>>

chatVars == <<messages, currentMessage, isLoading>>

appVars == <<configVars, documentVars, chatVars, uploads, requests>>

normalizeVars == <<mdInput, mdStep, mdOnce, mdTwice>>

vars == <<decodeVars, appVars, normalizeVars>>

-----------------------------------------------------------------------------
(* JavaScript string primitives                                            *)

\* \s of a JavaScript regular expression, String.prototype.trim
JsWhitespace == {" ", "\t", "\n", "\r", "\f"}

\* line terminators: what . does not match and where ^ and $ match under /m
LineTerminators == {"\n", "\r"}

Min(a, b) == IF a < b THEN a ELSE b

Max(a, b) == IF a > b THEN a ELSE b

\* does the literal lit occur in s at position i
StartsWithAt(s, i, lit) ==
    /\ i >= 1
    /\ i + Len(lit) - 1 <= Len(s)
    /\ \A k \in 1..Len(lit) : s[i + k - 1] = lit[k]

\* String.prototype.indexOf from position i, 1-based; 0 when absent
IndexOfFrom(s, lit, i) ==
    LET hits == {j \in i..(Len(s) - Len(lit) + 1) : StartsWithAt(s, j, lit)}
    IN  IF hits = {} THEN 0 ELSE CHOOSE j \in hits : \A k \in hits : j <= k

\* String.prototype.includes
Includes(s, lit) == IndexOfFrom(s, lit, 1) # 0

\* first position >= i whose character is not in the set cs (Len(s)+1 if none)
SkipSet(s, i, cs) ==
    LET stops == {j \in i..Len(s) : s[j] \notin cs}
    IN  IF stops = {} THEN Max(i, Len(s) + 1)
        ELSE CHOOSE j \in stops : \A k \in stops : j <= k

\* String.prototype.substring(0, n)
Substring0(s, n) == SubSeq(s, 1, Min(n, Len(s)))

\* String.prototype.trim
Trim(s) ==
    LET keep == {j \in 1..Len(s) : s[j] \notin JsWhitespace}
    IN  IF keep = {} THEN <<>>
        ELSE SubSeq(s, CHOOSE j \in keep : \A k \in keep : j <= k,
                       CHOOSE j \in keep : \A k \in keep : j >= k)

\* the /i flag: the lower-case form of a character
LowerCase(c) ==
    CASE c = "R" -> "r" [] c = "E" -> "e" [] c = "S" -> "s" [] c = "P" -> "p"
      [] c = "O" -> "o" [] c = "N" -> "n" [] OTHER -> c

\* literal match at i under the /i flag (lit is given in lower case)
StartsWithAtI(s, i, lit) ==
    /\ i >= 1
    /\ i + Len(lit) - 1 <= Len(s)
    /\ \A k \in 1..Len(lit) : LowerCase(s[i + k - 1]) = lit[k]

\* s.replace(/x/g, to) for a literal x
RECURSIVE ReplaceAllLit(_, _, _)
ReplaceAllLit(s, lit, to) ==
    LET j == IndexOfFrom(s, lit, 1)
    IN  IF j = 0 THEN s
        ELSE SubSeq(s, 1, j - 1) \o to
             \o ReplaceAllLit(SubSeq(s, j + Len(lit), Len(s)), lit, to)

\* s.replace(/[cs]/g, "") for a character class cs
RemoveChars(s, cs) == SelectSeq(s, LAMBDA c : c \notin cs)

\* the decimal digits of a natural number: a template literal ${n}
RECURSIVE NumberToString(_)
NumberToString(n) ==
    LET d == <<"0", "1", "2", "3", "4", "5", "6", "7", "8", "9">>
    IN  IF n < 10 THEN <<d[n + 1]>>
        ELSE NumberToString(n \div 10) \o <<d[(n % 10) + 1]>>

-----------------------------------------------------------------------------
(* JSON.parse (ECMA-404); a value is a record tagged by t                   *)

JsonString(s) == [t |-> "string", s |-> s]

JsonNumber(lex) == [t |-> "number", lex |-> lex]

JsonBoolean(b) == [t |-> "boolean", b |-> b]

JsonNull == [t |-> "null"]

JsonArray(items) == [t |-> "array", items |-> items]

\* members: a sequence of [k |-> key string, v |-> value], in source order
JsonObject(members) == [t |-> "object", members |-> members]

JsonUndefined == [t |-> "undefined"]

JsonWs == {" ", "\t", "\n", "\r"}

Digits == {"0", "1", "2", "3", "4", "5", "6", "7", "8", "9"}

HexDigits == Digits \cup {"a", "b", "c", "d", "e", "f", "A", "B", "C", "D", "E", "F"}

\* the characters JSON forbids unescaped inside a string (U+0000..U+001F)
JsonControlChars == {"\n", "\r", "\t", "\f", "<BS>"}

ParseFail == [ok |-> FALSE]

\* the character an escape \e stands for
JsonEscape(e) ==
    CASE e = "\"" -> "\"" [] e = "\\" -> "\\" [] e = "/" -> "/"
      [] e = "b" -> "<BS>" [] e = "f" -> "\f" [] e = "n" -> "\n"
      [] e = "r" -> "\r" [] e = "t" -> "\t"

\* a scan that copies an escape sequence instead of decoding it
RECURSIVE ScanString_KeepsBackslash(_, _, _)
ScanString_KeepsBackslash(s, j, acc) ==
    IF j > Len(s) THEN ParseFail
    ELSE IF s[j] = "\"" THEN [ok |-> TRUE, val |-> JsonString(acc), next |-> j + 1]
    ELSE IF s[j] = "\\" THEN
        IF j + 1 > Len(s) THEN ParseFail
        ELSE ScanString_KeepsBackslash(s, j + 2, acc \o <<s[j], s[j + 1]>>)
    ELSE IF s[j] \in JsonControlChars THEN ParseFail
    ELSE ScanString_KeepsBackslash(s, j + 1, Append(acc, s[j]))

\* the body of a string literal from position j (the opening quote is at j-1)
RECURSIVE ScanString(_, _, _)
ScanString(s, j, acc) ==
    IF j > Len(s) THEN ParseFail
    ELSE IF s[j] = "\"" THEN [ok |-> TRUE, val |-> JsonString(acc), next |-> j + 1]
    ELSE IF s[j] = "\\" THEN
        IF j + 1 > Len(s) THEN ParseFail
        ELSE IF s[j + 1] \in {"\"", "\\", "/", "b", "f", "n", "r", "t"}
            THEN ScanString(s, j + 2, Append(acc, JsonEscape(s[j + 1])))
        ELSE IF /\ s[j + 1] = "u"
                /\ j + 5 <= Len(s)
                /\ \A k \in 2..5 : s[j + k] \in HexDigits
            THEN ScanString(s, j + 6,
                            Append(acc, "<U+" \o s[j + 2] \o s[j + 3]
                                        \o s[j + 4] \o s[j + 5] \o ">"))
        ELSE ParseFail
    ELSE IF s[j] \in JsonControlChars THEN ParseFail
    ELSE ScanString(s, j + 1, Append(acc, s[j]))

\* -?(0|[1-9][0-9]*)(\.[0-9]+)?([eE][+-]?[0-9]+)? at position i
ParseNumber(s, i) ==
    LET a == IF i <= Len(s) /\ s[i] = "-" THEN i + 1 ELSE i
        b == IF a <= Len(s) /\ s[a] = "0" THEN a + 1 ELSE SkipSet(s, a, Digits)
        c == IF b <= Len(s) /\ s[b] = "." THEN SkipSet(s, b + 1, Digits) ELSE b
        fracOk == (b <= Len(s) /\ s[b] = ".") => c > b + 1
        hasExp == c <= Len(s) /\ s[c] \in {"e", "E"}
        d == IF hasExp /\ c + 1 <= Len(s) /\ s[c + 1] \in {"+", "-"}
             THEN c + 2 ELSE c + 1
        e == IF hasExp THEN SkipSet(s, d, Digits) ELSE c
        expOk == hasExp => e > d
    IN  IF b > a /\ fracOk /\ expOk
        THEN [ok |-> TRUE, val |-> JsonNumber(SubSeq(s, i, e - 1)), next |-> e]
        ELSE ParseFail

RECURSIVE ParseValue(_, _)
RECURSIVE ParseElements(_, _, _)
RECURSIVE ParseMembers(_, _, _)

\* the elements of an array after "[" or ",": position i is at a value
ParseElements(s, i, acc) ==
    LET r == ParseValue(s, SkipSet(s, i, JsonWs))
        j == IF r.ok THEN SkipSet(s, r.next, JsonWs) ELSE 0
    IN  IF ~r.ok \/ j > Len(s) THEN ParseFail
        ELSE IF s[j] = "]"
            THEN [ok |-> TRUE, val |-> JsonArray(Append(acc, r.val)), next |-> j + 1]
        ELSE IF s[j] = "," THEN ParseElements(s, j + 1, Append(acc, r.val))
        ELSE ParseFail

\* the members of an object after "{" or ",": position i is at a key
ParseMembers(s, i, acc) ==
    LET k0 == SkipSet(s, i, JsonWs)
        k == IF k0 <= Len(s) /\ s[k0] = "\"" THEN ScanString(s, k0 + 1, <<>>)
             ELSE ParseFail
        c == IF k.ok THEN SkipSet(s, k.next, JsonWs) ELSE 0
        colon == k.ok /\ c <= Len(s) /\ s[c] = ":"
        r == IF colon THEN ParseValue(s, SkipSet(s, c + 1, JsonWs)) ELSE ParseFail
        j == IF r.ok THEN SkipSet(s, r.next, JsonWs) ELSE 0
        m == IF r.ok THEN Append(acc, [k |-> k.val.s, v |-> r.val]) ELSE acc
    IN  IF ~r.ok \/ j > Len(s) THEN ParseFail
        ELSE IF s[j] = "}"
            THEN [ok |-> TRUE, val |-> JsonObject(m), next |-> j + 1]
        ELSE IF s[j] = "," THEN ParseMembers(s, j + 1, m)
        ELSE ParseFail

\* one JSON value at position i (white space already skipped)
ParseValue(s, i) ==
    IF i > Len(s) THEN ParseFail
    ELSE IF s[i] = "\"" THEN ScanString(s, i + 1, <<>>)
    ELSE IF s[i] = "{" THEN
        LET j == SkipSet(s, i + 1, JsonWs)
        IN  IF j <= Len(s) /\ s[j] = "}"
            THEN [ok |-> TRUE, val |-> JsonObject(<<>>), next |-> j + 1]
            ELSE ParseMembers(s, i + 1, <<>>)
    ELSE IF s[i] = "[" THEN
        LET j == SkipSet(s, i + 1, JsonWs)
        IN  IF j <= Len(s) /\ s[j] = "]"
            THEN [ok |-> TRUE, val |-> JsonArray(<<>>), next |-> j + 1]
            ELSE ParseElements(s, i + 1, <<>>)
    ELSE IF StartsWithAt(s, i, <<"t", "r", "u", "e">>)
        THEN [ok |-> TRUE, val |-> JsonBoolean(TRUE), next |-> i + 4]
    ELSE IF StartsWithAt(s, i, <<"f", "a", "l", "s", "e">>)
        THEN [ok |-> TRUE, val |-> JsonBoolean(FALSE), next |-> i + 5]
    ELSE IF StartsWithAt(s, i, <<"n", "u", "l", "l">>)
        THEN [ok |-> TRUE, val |-> JsonNull, next |-> i + 4]
    ELSE ParseNumber(s, i)

\* JSON.parse: [ok |-> TRUE, val |-> value], or [ok |-> FALSE] for a SyntaxError
JSONParse(s) ==
    LET r == ParseValue(s, SkipSet(s, 1, JsonWs))
    IN  IF r.ok /\ SkipSet(s, r.next, JsonWs) = Len(s) + 1
        THEN [ok |-> TRUE, val |-> r.val]
        ELSE ParseFail

\* value.response, for a value that is not null: own property of an object,
\* the last of duplicate keys; undefined on anything else
GetResponse(v) ==
    LET key == <<"r", "e", "s", "p", "o", "n", "s", "e">>
        hits == IF v.t = "object"
                THEN {j \in 1..Len(v.members) : v.members[j].k = key}
                ELSE {}
    IN  IF hits = {} THEN JsonUndefined
        ELSE v.members[CHOOSE j \in hits : \A k \in hits : j >= k].v

\* ToBoolean
Truthy(v) ==
    CASE v.t = "string" -> v.s # <<>>
      [] v.t = "number" ->
            LET e == {j \in 1..Len(v.lex) : v.lex[j] \in {"e", "E"}}
                m == IF e = {} THEN Len(v.lex)
                     ELSE (CHOOSE j \in e : \A k \in e : j <= k) - 1
            IN  \E j \in 1..m : v.lex[j] \in (Digits \ {"0"})
      [] v.t = "boolean" -> v.b
      [] v.t \in {"null", "undefined"} -> FALSE
      [] OTHER -> TRUE

-----------------------------------------------------------------------------
(* sanitizeJsonString                                                      *)

\* [\x00-\x08\x0B\x0C\x0E-\x1F\x7F]: the control characters other than \t \n \r
DisallowedControlChars == {"\f", "<BS>"}

\* s.replace(/(?<!\\)c/g, to): every c not preceded by a backslash becomes to
RECURSIVE ReplaceNotEscaped(_, _, _, _)
ReplaceNotEscaped(s, c, to, j) ==
    IF j > Len(s) THEN <<>>
    ELSE (IF s[j] = c /\ (j = 1 \/ s[j - 1] # "\\") THEN to ELSE <<s[j]>>)
         \o ReplaceNotEscaped(s, c, to, j + 1)

\* sanitizeJsonString without the replacement that escapes the quotes
sanitizeJsonString_KeepsQuotes(str) ==
    IF Len(str) = 0 THEN str
    ELSE
        LET a == RemoveChars(str, DisallowedControlChars)
            c == ReplaceNotEscaped(a, "\\", <<"\\", "\\">>, 1)
            d == ReplaceAllLit(c, <<"\n">>, <<"\\", "n">>)
            e == ReplaceAllLit(d, <<"\r">>, <<"\\", "r">>)
        IN  ReplaceAllLit(e, <<"\t">>, <<"\\", "t">>)

sanitizeJsonString(str) ==
    IF Len(str) = 0 THEN str
    ELSE
        LET a == RemoveChars(str, DisallowedControlChars)
            b == ReplaceNotEscaped(a, "\"", <<"\\", "\"">>, 1)
            c == ReplaceNotEscaped(b, "\\", <<"\\", "\\">>, 1)
            d == ReplaceAllLit(c, <<"\n">>, <<"\\", "n">>)
            e == ReplaceAllLit(d, <<"\r">>, <<"\\", "r">>)
        IN  ReplaceAllLit(e, <<"\t">>, <<"\\", "t">>)

-----------------------------------------------------------------------------
(* parseJsonFromMarkdown: the strategies, each [ok |-> BOOLEAN, val |-> v]  *)

ResponseWord == <<"r", "e", "s", "p", "o", "n", "s", "e">>

\* the grave accent U+0060, which a TLA+ string cannot hold
Backtick == "<BQ>"

FenceOpen == <<Backtick, Backtick, Backtick, "j", "s", "o", "n">>

Fence == <<Backtick, Backtick, Backtick>>

\* the object literal { response: s }
ResponseObject(s) == JsonObject(<<[k |-> ResponseWord, v |-> JsonString(s)]>>)

NoMatch == [ok |-> FALSE]

\* markdown.match(/<fence>json\s*([\s\S]*?)\s*<fence>/): [ok, group]
MatchJsonBlock(m) ==
    LET i == IndexOfFrom(m, FenceOpen, 1)
        p == SkipSet(m, i + Len(FenceOpen), JsWhitespace)
        ends == {e \in p..Len(m) : StartsWithAt(m, SkipSet(m, e, JsWhitespace), Fence)}
    IN  IF i = 0 \/ ends = {} THEN NoMatch
        ELSE [ok |-> TRUE,
              group |-> SubSeq(m, p, (CHOOSE e \in ends : \A k \in ends : e <= k) - 1)]

\* the end of a run of (?:[^"\\]|\\.)* that starts at j
RECURSIVE SkipStringBody(_, _)
SkipStringBody(s, j) ==
    IF j > Len(s) THEN j
    ELSE IF s[j] = "\"" THEN j
    ELSE IF s[j] = "\\" THEN
        IF j + 1 <= Len(s) /\ s[j + 1] \notin LineTerminators
        THEN SkipStringBody(s, j + 2) ELSE j
    ELSE SkipStringBody(s, j + 1)

\* /"response"\s*:\s*"((?:[^"\\]|\\.)*)"/ tried at position i: [ok, group]
ResponseFieldAt(s, i) ==
    LET key == <<"\"">> \o ResponseWord \o <<"\"">>
        c == SkipSet(s, i + Len(key), JsWhitespace)
        q == SkipSet(s, c + 1, JsWhitespace)
        e == SkipStringBody(s, q + 1)
    IN  IF /\ StartsWithAt(s, i, key)
           /\ c <= Len(s) /\ s[c] = ":"
           /\ q <= Len(s) /\ s[q] = "\""
           /\ e <= Len(s) /\ s[e] = "\""
        THEN [ok |-> TRUE, group |-> SubSeq(s, q + 1, e - 1)]
        ELSE NoMatch

\* jsonStr.match(/"response"\s*:\s*"((?:[^"\\]|\\.)*)"/): the leftmost match
MatchResponseField(s) ==
    LET hits == {i \in 1..Len(s) : ResponseFieldAt(s, i).ok}
    IN  IF hits = {} THEN NoMatch
        ELSE ResponseFieldAt(s, CHOOSE i \in hits : \A k \in hits : i <= k)

\* /(?:response["\s]*:[\s]*["])([\s\S]*?)(?:["][\s]*}|$)/i tried at i: [ok, group]
LooseResponseAt(s, i) ==
    LET c == SkipSet(s, i + Len(ResponseWord), JsWhitespace \cup {"\""})
        q == SkipSet(s, c + 1, JsWhitespace)
        ends == {e \in (q + 1)..Len(s) :
                    /\ s[e] = "\""
                    /\ LET b == SkipSet(s, e + 1, JsWhitespace)
                       IN  b <= Len(s) /\ s[b] = "}"}
        e == IF ends = {} THEN Len(s) + 1
             ELSE CHOOSE x \in ends : \A k \in ends : x <= k
    IN  IF /\ StartsWithAtI(s, i, ResponseWord)
           /\ c <= Len(s) /\ s[c] = ":"
           /\ q <= Len(s) /\ s[q] = "\""
        THEN [ok |-> TRUE, group |-> SubSeq(s, q + 1, e - 1)]
        ELSE NoMatch

MatchLooseResponse(s) ==
    LET hits == {i \in 1..Len(s) : LooseResponseAt(s, i).ok}
    IN  IF hits = {} THEN NoMatch
        ELSE LooseResponseAt(s, CHOOSE i \in hits : \A k \in hits : i <= k)

\* s.replace(/response\s*:?\s*/i, ""): the first match only
RemoveResponseLabel(s) ==
    LET hits == {i \in 1..Len(s) : StartsWithAtI(s, i, ResponseWord)}
        i == CHOOSE x \in hits : \A k \in hits : x <= k
        a == SkipSet(s, i + Len(ResponseWord), JsWhitespace)
        b == IF a <= Len(s) /\ s[a] = ":" THEN a + 1 ELSE a
        e == SkipSet(s, b, JsWhitespace)
    IN  IF hits = {} THEN s
        ELSE SubSeq(s, 1, i - 1) \o SubSeq(s, e, Len(s))

\* Strategy 1a: JSON.parse(jsonStr)
DirectParse(js) == JSONParse(js)

\* Strategy 1b: JSON.parse(sanitizeJsonString(jsonStr))
SanitizedParse(js) == JSONParse(sanitizeJsonString(js))

\* Strategy 1c: the response field matched in the fenced contents, unescaped
ManualExtraction(js) ==
    LET r == MatchResponseField(js)
        a == IF r.ok THEN ReplaceAllLit(r.group, <<"\\", "\"">>, <<"\"">>) ELSE <<>>
        b == ReplaceAllLit(a, <<"\\", "n">>, <<"\n">>)
        c == ReplaceAllLit(b, <<"\\", "t">>, <<"\t">>)
        d == ReplaceAllLit(c, <<"\\", "r">>, <<"\r">>)
    IN  IF r.ok THEN [ok |-> TRUE, val |-> ResponseObject(d)] ELSE NoMatch

\* Strategy 2: JSON.parse(markdown)
RawParse(m) == JSONParse(m)

\* Strategy 3: a response-like field anywhere in the raw text
RegexExtraction(m) ==
    LET r == MatchLooseResponse(m)
        a == IF r.ok THEN ReplaceAllLit(r.group, <<"\\", "n">>, <<"\n">>) ELSE <<>>
        b == ReplaceAllLit(a, <<"\\", "\"">>, <<"\"">>)
        c == ReplaceAllLit(b, <<"\\", "\\">>, <<"\\">>)
        d == ReplaceAllLit(c, <<"\\", "t">>, <<"\t">>)
    IN  IF r.ok THEN [ok |-> TRUE, val |-> ResponseObject(Trim(d))] ELSE NoMatch

\* .substring(0, 800) of the last resort
SalvageLimit == 800

ApologyText ==
    <<"I apologize, but I'm having trouble formatting my response properly. Could you please try asking your question again?">>

\* Strategy 4: what is left of the raw text, or the apology
LastResort(m) ==
    LET a == RemoveChars(m, {"{", "}", "\"", "[", "]"})
        cleanedContent == Substring0(Trim(RemoveResponseLabel(a)), SalvageLimit)
    IN  [ok |-> TRUE,
         val |-> ResponseObject(IF cleanedContent # <<>> THEN cleanedContent
                                ELSE ApologyText)]

\* the fenced contents the strategies 1a-1c work on: match && match[1], trimmed
FencedContents(m) ==
    LET r == MatchJsonBlock(m)
    IN  IF r.ok /\ r.group # <<>> THEN [ok |-> TRUE, jsonStr |-> Trim(r.group)]
        ELSE NoMatch

\* a strategy that succeeded ends the cascade, else the next one is tried
OrElse(a, b) == IF a.ok THEN a ELSE b

\* the strategies 1a-1c, entered only with fenced contents
FromFence(f) ==
    IF ~f.ok THEN NoMatch
    ELSE OrElse(DirectParse(f.jsonStr),
                OrElse(SanitizedParse(f.jsonStr), ManualExtraction(f.jsonStr)))

\* parseJsonFromMarkdown as one call:
\* [thrown |-> TRUE] or [thrown |-> FALSE, val |-> the value returned]
parseJsonFromMarkdown(m) ==
    IF m = <<>> THEN [thrown |-> TRUE]
    ELSE [thrown |-> FALSE,
          val |-> OrElse(FromFence(FencedContents(m)),
                         OrElse(RawParse(m),
                                OrElse(RegexExtraction(m), LastResort(m)))).val]

-----------------------------------------------------------------------------
(* parseJsonFromMarkdown step by step: one action per strategy             *)

\* how many pieces a generated raw text is made of
MaxPieces == 3

Ex_FencedHi ==
    FenceOpen \o <<"\n", "{", "\"">> \o ResponseWord
    \o <<"\"", ":", "\"", "H", "i", "\"", "}", "\n">> \o Fence

Ex_EscapedQuotes ==
    <<"{", "\"">> \o ResponseWord
    \o <<"\"", ":", " ", "\"", "H", "e", "l", "l", "o", " ", "\\", "\"",
         "W", "o", "r", "l", "d", "\\", "\"", "\"", "}">>

Ex_NotJson ==
    <<"n", "o", "t", " ", "j", "s", "o", "n", " ", "a", "t", " ", "a", "l", "l">>

\* a fenced block whose object lacks its closing brace
Ex_FencedUnclosed ==
    FenceOpen \o <<"\n", "{", "\"">> \o ResponseWord
    \o <<"\"", ":", "\"", "H", "i", "\"", "\n">> \o Fence

\* a JSON string literal that holds a fenced block
Ex_QuotedFence ==
    <<"\"">> \o FenceOpen \o <<" ", "x", " ">> \o Fence \o <<"\"">>

\* a fenced block with nothing usable, after a loose response field
Ex_LooseThenFence ==
    <<"R", "e", "s", "p", "o", "n", "s", "e", ":", " ", "\"", "o", "k", "\"", " ", "}">>
    \o FenceOpen \o <<" ", "x", " ">> \o Fence

\* a fenced block with nothing usable and no response field
Ex_FencedWord == FenceOpen \o <<" ", "x", " ">> \o Fence

\* a fenced block whose string holds a line break as it is, not escaped
Ex_FencedNewline ==
    FenceOpen \o <<"\n", "{", "\"">> \o ResponseWord
    \o <<"\"", ":", "\"", "H", "\n", "i", "\"", "}", "\n">> \o Fence

\* a reply in prose, no JSON in it, with the word response in its middle
Ex_Prose ==
    <<"N", "o", " ">> \o ResponseWord \o <<" ", "y", "e", "t">>

DecodeExamples ==
    {Ex_FencedHi, Ex_EscapedQuotes, Ex_NotJson, Ex_FencedUnclosed,
     Ex_QuotedFence, Ex_LooseThenFence, Ex_FencedWord, Ex_Prose,
     Ex_FencedNewline}

DecodePieces ==
    {FenceOpen \o <<"\n">>,
     Fence,
     <<"{", "\"">> \o ResponseWord \o <<"\"", ":">>,
     <<"\"", "H", "i", "\"">>,
     <<"}">>,
     <<"1">>,
     <<"n", "u", "l", "l">>,
     <<"\n">>,
     ResponseWord \o <<":", " ", "\"">>,
     <<"[", "1", "\f", "]">>,
     <<"\\">>,
     <<"\"">>}

\* the texts made of at most n pieces
RECURSIVE PieceTexts(_)
PieceTexts(n) ==
    IF n = 0 THEN {<<>>}
    ELSE LET shorter == PieceTexts(n - 1)
         IN  shorter \cup {t \o p : t \in shorter, p \in DecodePieces}

DecodeInputs == DecodeExamples \cup PieceTexts(MaxPieces)

\* the component after construction: the initial values of its useState hooks,
\* no call of a handler running
AppConstructed(v, dev, key) ==
    /\ variant = v
    /\ devMode = dev
    /\ apiKey = key
    /\ pdfFile = JsonNull
    /\ pdfText = <<>>
    /\ numPages = JsonNull
    /\ messages = <<>>
    /\ currentMessage = <<>>
    /\ isLoading = FALSE
    /\ uploads = <<>>
    /\ requests = <<>>

\* no call of parseJsonFromMarkdown under way
DecodeIdle ==
    /\ markdown = <<>>
    /\ dpc = "idle"
    /\ jsonStr = <<>>
    /\ tried = <<>>
    /\ result = JsonUndefined

\* no call of markdownToText under way
NormalizeIdle ==
    /\ mdInput = <<>>
    /\ mdStep = 0
    /\ mdOnce = <<>>
    /\ mdTwice = <<>>

StrategyOrder == <<"1a", "1b", "1c", "2", "3", "4">>

DecodeInit ==
    /\ markdown \in DecodeInputs
    /\ dpc = "validate"
    /\ jsonStr = <<>>
    /\ tried = <<>>
    /\ result = JsonUndefined
    /\ AppConstructed("web", FALSE, TRUE)
    /\ NormalizeIdle

\* one strategy: log it, return its value or fall through to the next position
Attempt(name, r, onFailure) ==
    /\ tried' = Append(tried, name)
    /\ IF r.ok
       THEN dpc' = "returned" /\ result' = r.val
       ELSE dpc' = onFailure /\ UNCHANGED result
    /\ UNCHANGED <<markdown, jsonStr, appVars, normalizeVars>>

\* the input validation: an empty string is refused with an Error
ValidateInput ==
    /\ dpc = "validate"
    /\ dpc' = IF markdown = <<>> THEN "thrown" ELSE "match"
    /\ UNCHANGED <<markdown, jsonStr, tried, result, appVars, normalizeVars>>

\* Strategy 1: is there a fenced json block with contents
ExtractJsonBlock ==
    /\ dpc = "match"
    /\ LET f == FencedContents(markdown)
       IN  IF f.ok
           THEN dpc' = "1a" /\ jsonStr' = f.jsonStr
           ELSE dpc' = "2" /\ UNCHANGED jsonStr
    /\ UNCHANGED <<markdown, tried, result, appVars, normalizeVars>>

TrySanitizedParse_SkipsManual ==
    /\ dpc = "1b"
    /\ Attempt("1b", SanitizedParse(jsonStr), "2")

TryDirectParse ==
    /\ dpc = "1a"
    /\ Attempt("1a", DirectParse(jsonStr), "1b")

TrySanitizedParse ==
    /\ dpc = "1b"
    /\ Attempt("1b", SanitizedParse(jsonStr), "1c")

TryManualExtraction ==
    /\ dpc = "1c"
    /\ Attempt("1c", ManualExtraction(jsonStr), "2")

TryRawParse ==
    /\ dpc = "2"
    /\ Attempt("2", RawParse(markdown), "3")

TryRegexExtraction ==
    /\ dpc = "3"
    /\ Attempt("3", RegexExtraction(markdown), "4")

TryLastResort_ThrowsWhenEmpty ==
    /\ dpc = "4"
    /\ tried' = Append(tried, "4")
    /\ IF GetResponse(LastResort(markdown).val).s = ApologyText
       THEN dpc' = "thrown" /\ UNCHANGED result
       ELSE dpc' = "returned" /\ result' = LastResort(markdown).val
    /\ UNCHANGED <<markdown, jsonStr, appVars, normalizeVars>>

TryLastResort ==
    /\ dpc = "4"
    /\ tried' = Append(tried, "4")
    /\ dpc' = "returned"
    /\ result' = LastResort(markdown).val
    /\ UNCHANGED <<markdown, jsonStr, appVars, normalizeVars>>

DecodeNext ==
    \/ ValidateInput
    \/ ExtractJsonBlock
    \/ TryDirectParse
    \/ TrySanitizedParse
    \/ TryManualExtraction
    \/ TryRawParse
    \/ TryRegexExtraction
    \/ TryLastResort

SpecDecode == DecodeInit /\ [][DecodeNext]_vars

-----------------------------------------------------------------------------
(* Properties of parseJsonFromMarkdown                                      *)

IsResponseObject(v) == v.t = "object" /\ GetResponse(v).t = "string"

C2_ReturnsResponseObject == dpc = "returned" => IsResponseObject(result)

\* the strategy named k succeeds on the raw text m
StrategySucceeds(k, m) ==
    LET f == FencedContents(m)
    IN  CASE k = "1a" -> f.ok /\ DirectParse(f.jsonStr).ok
          [] k = "1b" -> f.ok /\ SanitizedParse(f.jsonStr).ok
          [] k = "1c" -> f.ok /\ ManualExtraction(f.jsonStr).ok
          [] k = "2" -> RawParse(m).ok
          [] k = "3" -> RegexExtraction(m).ok
          [] k = "4" -> LastResort(m).ok

\* the value the strategy named k yields on the raw text m
StrategyValue(k, m) ==
    CASE k = "1a" -> DirectParse(FencedContents(m).jsonStr).val
      [] k = "1b" -> SanitizedParse(FencedContents(m).jsonStr).val
      [] k = "1c" -> ManualExtraction(FencedContents(m).jsonStr).val
      [] k = "2" -> RawParse(m).val
      [] k = "3" -> RegexExtraction(m).val
      [] k = "4" -> LastResort(m).val

OrderIndex(k) == CHOOSE i \in 1..Len(StrategyOrder) : StrategyOrder[i] = k

\* C4: the strategies are attempted in the fixed order, a strategy is attempted
\* only if every strategy before it in the order failed, and the value returned
\* is that of the first strategy in the order that succeeds.
C4_CascadeOrder ==
    /\ \A i \in 1..Len(tried) : \A j \in 1..Len(tried) :
          i < j => OrderIndex(tried[i]) < OrderIndex(tried[j])
    /\ \A i \in 1..Len(tried) : \A n \in 1..(OrderIndex(tried[i]) - 1) :
          ~StrategySucceeds(StrategyOrder[n], markdown)
    /\ dpc = "returned" =>
          /\ tried # <<>>
          /\ StrategySucceeds(tried[Len(tried)], markdown)
          /\ result = StrategyValue(tried[Len(tried)], markdown)
          /\ result = parseJsonFromMarkdown(markdown).val

\* the field pattern on the fenced contents answered after both parses failed
C4_Witness ==
    /\ dpc = "returned"
    /\ tried = <<"1a", "1b", "1c">>
    /\ result = ResponseObject(<<"H", "i">>)

-----------------------------------------------------------------------------
(* Texts and values of the application.  A fixed text of the program that  *)
(* no code examines character by character is written as one element of    *)
(* the sequence; a pictograph is written by its code point.                *)

\* a turn appended by the assistant side
Assistant(text) == [role |-> "assistant", content |-> JsonString(text)]

\* the turn of the user
UserTurn(text) == [role |-> "user", content |-> JsonString(text)]

\* [...prev.slice(0, -1), m]
ReplaceLast(prev, m) ==
    IF prev = <<>> THEN <<m>> ELSE Append(SubSeq(prev, 1, Len(prev) - 1), m)

\* Array.prototype.join
RECURSIVE Join(_, _)
Join(parts, sep) ==
    IF parts = <<>> THEN <<>>
    ELSE IF Len(parts) = 1 THEN parts[1]
    ELSE parts[1] \o sep \o Join(Tail(parts), sep)

\* (n / d).toFixed(k) for k in {1, 2}: the quotient rounded to k decimals
ToFixed(n, d, k) ==
    LET scale == IF k = 1 THEN 10 ELSE 100
        units == (2 * n * scale + d) \div (2 * d)
        frac == NumberToString(units % scale)
    IN  NumberToString(units \div scale) \o <<".">>
        \o (IF Len(frac) < k THEN <<"0">> ELSE <<>>) \o frac

\* Number.prototype.toLocaleString with groups of three digits
RECURSIVE ToLocaleString(_)
ToLocaleString(n) ==
    IF n < 1000 THEN NumberToString(n)
    ELSE LET low == NumberToString(n % 1000)
             pad == IF Len(low) = 1 THEN <<"0", "0">>
                    ELSE IF Len(low) = 2 THEN <<"0">> ELSE <<>>
         IN  ToLocaleString(n \div 1000) \o <<",">> \o pad \o low

\* a thrown Error object
ErrorOf(name, message) == [isError |-> TRUE, name |-> name, message |-> message]

\* a thrown value that is not an Error object
NonError == [isError |-> FALSE]

\* no rejection
NoError == [isError |-> FALSE, none |-> TRUE]

Msg_InvalidPdf == <<"I", "n", "v", "a", "l", "i", "d", " ", "P", "D", "F",
                    " ", "s", "t", "r", "u", "c", "t", "u", "r", "e", ".">>

Msg_Password == <<"N", "o", " ", "p", "a", "s", "s", "w", "o", "r", "d", " ",
                  "g", "i", "v", "e", "n">>

Msg_Boom == <<"b", "o", "o", "m">>

Err_InvalidPdf == ErrorOf(<<"I", "n", "v", "a", "l", "i", "d", "P", "D", "F",
                            "E", "x", "c", "e", "p", "t", "i", "o", "n">>, Msg_InvalidPdf)

Err_Password == ErrorOf(<<"P", "a", "s", "s", "w", "o", "r", "d", "E", "x",
                          "c", "e", "p", "t", "i", "o", "n">>, Msg_Password)

Err_Boom == ErrorOf(<<"E", "r", "r", "o", "r">>, Msg_Boom)

\* performance.now() differences in milliseconds
Durations == {12, 1500}

\* a text item of a page (item.str is a string)
TextItem(s) == JsonString(s)

\* a marked-content item of a page (item.str is undefined)
MarkedContent == JsonUndefined

\* a page whose text content is read
PageOk(items) == [kind |-> "text", items |-> items]

\* a page whose getPage or getTextContent promise rejects with err
PageFails(at, err) == [kind |-> at, error |-> err]

PdfMime == <<"application/pdf">>

BytesPerMB == 1024 * 1024

MaxSizeMB == 50

\* a file as the browser hands it to the handler, with what reading it yields
FileOf(type, size, readError, openError, pages) ==
    [name |-> <<"p", ".", "p", "d", "f">>, type |-> type, size |-> size,
     readError |-> readError, openError |-> openError, pages |-> pages]

MaxPages == 2

MaxUploads == 1

PageOutcomes ==
    {PageOk(<<TextItem(<<"a">>)>>),
     PageOk(<<TextItem(<<"b">>), MarkedContent>>),
     PageFails("getPage", Err_Boom),
     PageFails("getTextContent", NonError)}

\* the page sequences of the documents of 1 to n pages
Documents(n) == UNION {[1..k -> PageOutcomes] : k \in 1..n}

SmallSize == (3 * BytesPerMB) \div 2

Files ==
    {FileOf(PdfMime, SmallSize, NoError, NoError, d) : d \in Documents(MaxPages)}
    \cup {FileOf(<<"text/plain">>, SmallSize, NoError, NoError, <<>>),
          FileOf(<<>>, SmallSize, NoError, NoError, <<>>),
          FileOf(PdfMime, MaxSizeMB * BytesPerMB + 1, NoError, NoError, <<>>),
          FileOf(PdfMime, MaxSizeMB * BytesPerMB, NoError, NoError,
                 <<PageOk(<<TextItem(<<"a">>)>>)>>),
          FileOf(PdfMime, SmallSize, Err_Boom, NoError, <<>>),
          FileOf(PdfMime, SmallSize, NoError, Err_InvalidPdf, <<>>),
          FileOf(PdfMime, SmallSize, NoError, Err_Password, <<>>),
          FileOf(PdfMime, SmallSize, NoError, NonError, <<>>)}

\* the locals of a call of handleFileUpload that awaits the read of its file
NewUpload(file) ==
    [file |-> file, pc |-> "arrayBuffer", i |-> 0, fullText |-> <<>>,
     totalChars |-> 0, pagesWithErrors |-> 0, thrown |-> NoError]

\* what the handlers of the application leave alone
AppFrame == UNCHANGED <<decodeVars, normalizeVars, configVars>>

-----------------------------------------------------------------------------
(* The length of a text and of its JSON form                                *)

\* how many letters the long run of a large document has
LongRunLength == 95000

\* a run of LongRunLength letters a, written as one element of a text
LongRun == "<run of a>"

\* the elements of a text that hold one double quote
OneQuoteElements ==
    {"\"", "<U+1F4DA> Processing \"", "<U+2705> Successfully processed \"",
     "PDF \"", "\" (", "\"!", "\"... Extracted ",
     "\" loaded successfully! You can now ask questions about the document."}

\* the UTF-16 length of one element of a text: a character, a fixed passage
\* of the application (a pictograph above U+FFFF counts two), or the long run
Units(c) ==
    CASE c = LongRun -> LongRunLength
      [] c \in {Backtick, "<BS>"} -> 1
      [] c = "<U+1F4CA> Statistics:" -> 14
      [] c = "<U+1F4DA> Processing \"" -> 15
      [] c = "<U+2705> Successfully processed \"" -> 26
      [] c = "<U+274C> API key not configured. Please check your environment variables." -> 66
      [] OTHER -> Len(c)

\* String.prototype.length
RECURSIVE Length(_)
Length(s) == IF s = <<>> THEN 0 ELSE Units(Head(s)) + Length(Tail(s))

\* the characters JSON.stringify adds to one element of a string: a backslash
\* before a quote, a backslash or the letter of a control character
Escapes(c) ==
    IF c \in OneQuoteElements \cup {"\\", "\n", "\r", "\t", "\f", "<BS>"}
    THEN 1 ELSE 0

RECURSIVE EscapesOf(_)
EscapesOf(s) == IF s = <<>> THEN 0 ELSE Escapes(Head(s)) + EscapesOf(Tail(s))

\* the members JSON.stringify writes: of members with one key the last
WrittenMembers(members) ==
    {j \in 1..Len(members) :
        \A k \in (j + 1)..Len(members) : members[k].k # members[j].k}

\* JSON.stringify(v).length; a number is written as its lexeme, which holds
\* for the integers the replies hold
RECURSIVE StringifiedLength(_)
RECURSIVE SumOfLengths(_, _)
SumOfLengths(values, n) ==
    IF n = 0 THEN 0
    ELSE SumOfLengths(values, n - 1) + StringifiedLength(values[n])

StringifiedLength(v) ==
    CASE v.t = "string" -> 2 + Length(v.s) + EscapesOf(v.s)
      [] v.t = "number" -> Len(v.lex)
      [] v.t = "boolean" -> IF v.b THEN 4 ELSE 5
      [] v.t = "null" -> 4
      [] v.t = "array" ->
            2 + SumOfLengths(v.items, Len(v.items)) + Max(Len(v.items) - 1, 0)
      [] v.t = "object" ->
            LET written == SelectSeq([j \in 1..Len(v.members) |->
                                         [j |-> j, m |-> v.members[j]]],
                                     LAMBDA e : e.j \in WrittenMembers(v.members))
            IN  2 + SumOfLengths([j \in 1..Len(written) |->
                                     JsonString(written[j].m.k)], Len(written))
                  + Len(written)
                  + SumOfLengths([j \in 1..Len(written) |-> written[j].m.v],
                                 Len(written))
                  + Max(Len(written) - 1, 0)

\* JSON.stringify of one turn: {"role":"...","content":...}
TurnLength(turn) ==
    9 + Len(turn.role) + 12 + StringifiedLength(turn.content) + 1

RECURSIVE TurnsLength(_, _)
TurnsLength(history, n) ==
    IF n = 0 THEN 0 ELSE TurnsLength(history, n - 1) + TurnLength(history[n])

\* JSON.stringify(conversationHistory).length
HistoryLength(history) ==
    2 + TurnsLength(history, Len(history)) + Max(Len(history) - 1, 0)

-----------------------------------------------------------------------------
(* handleFileUpload of the web component (ResearchBuddy.tsx)                *)

\* file.size in megabytes with one decimal
SizeMB(file) == ToFixed(file.size, BytesPerMB, 1)

\* milliseconds as seconds with two decimals
Seconds(ms) == ToFixed(ms, 1000, 2)

InvalidTypeText(file) ==
    IF file.type = <<>>
    THEN <<"Unable to determine file type. Please ensure this is a valid PDF file.">>
    ELSE <<"Invalid file type: ">> \o file.type \o <<". Please upload a PDF file.">>

TooLargeText(file) ==
    <<"File too large (">> \o SizeMB(file)
    \o <<"MB). Please use a file smaller than ">> \o NumberToString(MaxSizeMB)
    \o <<"MB.">>

ProcessingText(file) ==
    <<"<U+1F4DA> Processing \"">> \o file.name \o <<"\" (">> \o SizeMB(file)
    \o <<"MB)... Please wait while I extract the text content.">>

ProgressMinPages == 20

ProgressEvery == 10

ProgressText(file, i, n, chars) ==
    <<"<U+1F4DA> Processing \"">> \o file.name \o <<"\"... Extracted ">>
    \o NumberToString(i) \o <<"/">> \o NumberToString(n) \o <<" pages (">>
    \o ToLocaleString(chars) \o <<" characters)">>

ProcessedText(file, n, errors, chars, ms) ==
    <<"<U+2705> Successfully processed \"">> \o file.name
    \o <<"\"!", "\n", "\n", "<U+1F4CA> Statistics:", "\n", "- ">>
    \o NumberToString(n) \o <<" pages processed">>
    \o (IF errors > 0
        THEN <<" (">> \o NumberToString(errors) \o <<" pages had errors)">>
        ELSE <<>>)
    \o <<"\n", "- ">> \o ToLocaleString(chars) \o <<" characters extracted", "\n">>
    \o <<"- Processing time: ">> \o Seconds(ms) \o <<"s", "\n", "\n">>
    \o <<"I'm ready to help you analyze this research paper! You can highlight text and add it to our chat, or ask me questions about the content.">>

\* the user-facing sentence for an error caught by handleFileUpload
UploadFailureText(error) ==
    IF ~error.isError
    THEN <<"I'm sorry, there was an error processing your PDF file.">>
    ELSE IF Includes(error.message, <<"I", "n", "v", "a", "l", "i", "d", " ",
                                      "P", "D", "F">>)
    THEN <<"This doesn't appear to be a valid PDF file. Please try a different file.">>
    ELSE IF \/ Includes(error.message, <<"p", "a", "s", "s", "w", "o", "r",
                                         "d">>)
            \/ Includes(error.message, <<"e", "n", "c", "r", "y", "p", "t",
                                         "e", "d">>)
    THEN <<"This PDF appears to be password-protected. Please use an unprotected PDF file.">>
    ELSE IF \/ Includes(error.message, <<"c", "o", "r", "r", "u", "p", "t",
                                         "e", "d">>)
            \/ Includes(error.message, <<"d", "a", "m", "a", "g", "e", "d">>)
    THEN <<"This PDF file appears to be corrupted. Please try a different file.">>
    ELSE IF Includes(error.message, <<"F", "I", "L", "E", "_", "U", "P", "L",
                                      "O", "A", "D", ":", " ", "N", "o", " ",
                                      "f", "i", "l", "e", " ", "p", "r", "o",
                                      "v", "i", "d", "e", "d">>)
    THEN <<"No file was selected. Please choose a PDF file to upload.">>
    ELSE IF \/ Includes(error.message, <<"n", "e", "t", "w", "o", "r", "k">>)
            \/ Includes(error.message, <<"f", "e", "t", "c", "h">>)
    THEN <<"Network error while processing the file. Please check your connection and try again.">>
    ELSE <<"An unexpected error occurred while processing the PDF. Please try a different file.">>

\* the suffix added whatever the mode
TechnicalDetails_Always(error, label, ms) ==
    IF error.isError
    THEN <<"\n", "\n", "**Technical Details:**", "\n", "- Error: ">> \o error.name
         \o <<"\n", "- Message: ">> \o error.message
         \o <<"\n", "- ">> \o label \o <<": ">> \o Seconds(ms) \o <<"s">>
    ELSE <<>>

\* the development-mode suffix of a failure message; label names the duration
TechnicalDetails(error, label, ms) ==
    IF error.isError /\ devMode
    THEN <<"\n", "\n", "**Technical Details:**", "\n", "- Error: ">> \o error.name
         \o <<"\n", "- Message: ">> \o error.message
         \o <<"\n", "- ">> \o label \o <<": ">> \o Seconds(ms) \o <<"s">>
    ELSE <<>>

\* the string a text item contributes: item.str, or String(item.str || "")
WebItemString(item) == IF item.t = "string" THEN item.s ELSE <<>>

\* textContent.items.map(...).join(" ")
WebPageText(page) ==
    Join([k \in 1..Len(page.items) |-> WebItemString(page.items[k])], <<" ">>)

\* the text that stands for page i when reading it threw error
ErrorPlaceholder(i, error) ==
    <<"[", "E", "r", "r", "o", "r", " ", "r", "e", "a", "d", "i", "n", "g",
      " ", "p", "a", "g", "e", " ">> \o NumberToString(i) \o <<":", " ">>
    \o (IF error.isError THEN error.message ELSE <<"U", "n", "k", "n", "o",
                                                   "w", "n", " ", "e", "r",
                                                   "r", "o", "r">>)
    \o <<"]">>

\* the body of the try of one loop iteration: the page text is appended
WebPageRead(up) ==
    LET pageText == WebPageText(up.file.pages[up.i])
    IN  [up EXCEPT !.fullText = @ \o pageText \o <<"\n">>,
                   !.totalChars = @ + Length(pageText)]

\* a catch that counts the failure and contributes nothing for the page
WebPageErrorCaught_DropsPage(up, error) ==
    [up EXCEPT !.pagesWithErrors = @ + 1]

\* the catch of one loop iteration
WebPageErrorCaught(up, error) ==
    [up EXCEPT !.pagesWithErrors = @ + 1,
               !.fullText = @ \o ErrorPlaceholder(up.i, error) \o <<"\n">>]

\* the conversation after page up.i was read: the progress message of a long
\* document replaces the last message
WebProgress(up, prev) ==
    LET n == Len(up.file.pages)
    IN  IF n > ProgressMinPages /\ up.i % ProgressEvery = 0
        THEN ReplaceLast(prev, Assistant(ProgressText(up.file, up.i, n, up.totalChars)))
        ELSE prev

\* i++ and the loop test: the next page is requested, or the loop is left, the
\* text is stored and the closing message replaces the last message
WebLoopNext(u, up, prev, ms) ==
    LET n == Len(up.file.pages)
        next == [up EXCEPT !.i = @ + 1]
    IN  IF next.i <= n
        THEN /\ uploads' = [uploads EXCEPT ![u] = [next EXCEPT !.pc = "getPage"]]
             /\ messages' = prev
             /\ UNCHANGED pdfText
        ELSE /\ uploads' = [uploads EXCEPT ![u] = [next EXCEPT !.pc = "done"]]
             /\ pdfText' = next.fullText
             /\ messages' = ReplaceLast(prev,
                   Assistant(ProcessedText(up.file, n, next.pagesWithErrors,
                                           next.totalChars, ms)))

\* the outer catch: the failure message is appended and the document discarded
WebUploadFailed(u, error, ms) ==
    /\ messages' = Append(messages,
          Assistant(UploadFailureText(error)
                    \o TechnicalDetails(error, <<"Processing time">>, ms)))
    /\ pdfFile' = JsonNull
    /\ pdfText' = <<>>
    /\ numPages' = JsonNull
    /\ uploads' = [uploads EXCEPT ![u] = [@ EXCEPT !.pc = "failed", !.thrown = error]]

\* the call of handleFileUpload up to its first await; the drop zone and its
\* file input, the only callers, are rendered while no file is stored
HandleFileUpload(file) ==
    /\ variant = "web"
    /\ pdfFile = JsonNull
    /\ IF file.type # PdfMime
       THEN /\ messages' = Append(messages, Assistant(InvalidTypeText(file)))
            /\ uploads' = Append(uploads, [NewUpload(file) EXCEPT !.pc = "returned"])
            /\ UNCHANGED <<documentVars, isLoading>>
       ELSE IF file.size > MaxSizeMB * BytesPerMB
       THEN /\ messages' = Append(messages, Assistant(TooLargeText(file)))
            /\ uploads' = Append(uploads, [NewUpload(file) EXCEPT !.pc = "returned"])
            /\ UNCHANGED <<documentVars, isLoading>>
       ELSE /\ pdfText' = <<>>
            /\ numPages' = JsonNull
            /\ isLoading' = FALSE
            /\ pdfFile' = file
            /\ messages' = <<Assistant(ProcessingText(file))>>
            /\ uploads' = Append(uploads, NewUpload(file))
    /\ UNCHANGED <<currentMessage, requests>>
    /\ AppFrame

\* await file.arrayBuffer() settles
WebArrayBufferSettled(u, ms) ==
    /\ variant = "web"
    /\ uploads[u].pc = "arrayBuffer"
    /\ IF uploads[u].file.readError # NoError
       THEN WebUploadFailed(u, uploads[u].file.readError, ms)
       ELSE /\ uploads' = [uploads EXCEPT ![u].pc = "getDocument"]
            /\ UNCHANGED <<documentVars, messages>>
    /\ UNCHANGED <<currentMessage, isLoading, requests>>
    /\ AppFrame

\* await pdfjs.getDocument(...).promise settles; the loop is entered
WebGetDocumentSettled(u, ms) ==
    /\ variant = "web"
    /\ uploads[u].pc = "getDocument"
    /\ IF uploads[u].file.openError # NoError
       THEN WebUploadFailed(u, uploads[u].file.openError, ms)
       ELSE /\ numPages' = JsonNumber(NumberToString(Len(uploads[u].file.pages)))
            /\ UNCHANGED pdfFile
            /\ WebLoopNext(u, uploads[u], messages, ms)
    /\ UNCHANGED <<currentMessage, isLoading, requests>>
    /\ AppFrame

\* await pdf.getPage(i) settles
WebGetPageSettled(u, ms) ==
    /\ variant = "web"
    /\ uploads[u].pc = "getPage"
    /\ LET up == uploads[u]
           page == up.file.pages[up.i]
       IN  IF page.kind = "getPage"
           THEN WebLoopNext(u, WebPageErrorCaught(up, page.error), messages, ms)
           ELSE /\ uploads' = [uploads EXCEPT ![u].pc = "getTextContent"]
                /\ UNCHANGED <<pdfText, messages>>
    /\ UNCHANGED <<pdfFile, numPages, currentMessage, isLoading, requests>>
    /\ AppFrame

\* await page.getTextContent() settles
WebGetTextContentSettled(u, ms) ==
    /\ variant = "web"
    /\ uploads[u].pc = "getTextContent"
    /\ LET up == uploads[u]
           page == up.file.pages[up.i]
       IN  IF page.kind = "getTextContent"
           THEN WebLoopNext(u, WebPageErrorCaught(up, page.error), messages, ms)
           ELSE WebLoopNext(u, WebPageRead(up), WebProgress(WebPageRead(up), messages), ms)
    /\ UNCHANGED <<pdfFile, numPages, currentMessage, isLoading, requests>>
    /\ AppFrame

-----------------------------------------------------------------------------
(* handleFileUpload and extractTextFromPDF of the native component         *)
(* (ResearchBuddyNative.tsx)                                                *)

\* textContent.items.map((item) => item.str).join(" ")
NativePageText(page) ==
    Join([k \in 1..Len(page.items) |->
             IF page.items[k].t = "string" THEN page.items[k].s ELSE <<>>],
         <<" ">>)

\* the Error extractTextFromPDF throws from its catch
ExtractionError(error) ==
    ErrorOf(<<"E", "r", "r", "o", "r">>,
            <<"F", "a", "i", "l", "e", "d", " ", "t", "o", " ", "e", "x",
              "t", "r", "a", "c", "t", " ", "t", "e", "x", "t", " ", "f",
              "r", "o", "m", " ", "P", "D", "F", ":", " ">>
            \o (IF error.isError THEN error.message ELSE <<"u", "n", "d",
                                                           "e", "f", "i",
                                                           "n", "e", "d">>))

\* the catch of extractTextFromPDF rethrows and the catch of handleFileUpload
\* appends its message
NativeUploadFailed(u, error) ==
    /\ uploads' = [uploads EXCEPT ![u] =
                      [@ EXCEPT !.pc = "failed", !.thrown = ExtractionError(error)]]
    /\ messages' = Append(messages,
          Assistant(<<"Sorry, there was an error processing your PDF. Please try again.">>))
    /\ UNCHANGED pdfText

\* i++ and the loop test: the next page is requested, or extractTextFromPDF
\* returns fullText, which handleFileUpload stores before appending its message
NativeLoopNext(u, up) ==
    LET next == [up EXCEPT !.i = @ + 1]
    IN  IF next.i <= Len(up.file.pages)
        THEN /\ uploads' = [uploads EXCEPT ![u] = [next EXCEPT !.pc = "getPage"]]
             /\ UNCHANGED <<pdfText, messages>>
        ELSE /\ uploads' = [uploads EXCEPT ![u] = [next EXCEPT !.pc = "done"]]
             /\ pdfText' = next.fullText
             /\ messages' = Append(messages,
                   Assistant(<<"PDF \"">> \o up.file.name
                             \o <<"\" loaded successfully! You can now ask questions about the document.">>))

\* the call of handleFileUpload up to the first await of extractTextFromPDF;
\* the drop zones and their file inputs are rendered while no file is stored
NativeHandleFileUpload(file) ==
    /\ variant = "native"
    /\ pdfFile = JsonNull
    /\ IF file.type # PdfMime
       THEN /\ messages' = Append(messages,
                  Assistant(<<"Please upload a PDF file only.">>))
            /\ uploads' = Append(uploads, [NewUpload(file) EXCEPT !.pc = "returned"])
            /\ UNCHANGED pdfFile
       ELSE /\ pdfFile' = file
            /\ uploads' = Append(uploads, NewUpload(file))
            /\ UNCHANGED messages
    /\ UNCHANGED <<pdfText, numPages, currentMessage, isLoading, requests>>
    /\ AppFrame

\* await file.arrayBuffer() settles
NativeArrayBufferSettled(u) ==
    /\ variant = "native"
    /\ uploads[u].pc = "arrayBuffer"
    /\ IF uploads[u].file.readError # NoError
       THEN NativeUploadFailed(u, uploads[u].file.readError)
       ELSE /\ uploads' = [uploads EXCEPT ![u].pc = "getDocument"]
            /\ UNCHANGED <<pdfText, messages>>
    /\ UNCHANGED <<pdfFile, numPages, currentMessage, isLoading, requests>>
    /\ AppFrame

\* await loadingTask.promise settles; the loop is entered
NativeGetDocumentSettled(u) ==
    /\ variant = "native"
    /\ uploads[u].pc = "getDocument"
    /\ IF uploads[u].file.openError # NoError
       THEN NativeUploadFailed(u, uploads[u].file.openError)
       ELSE NativeLoopNext(u, uploads[u])
    /\ UNCHANGED <<pdfFile, numPages, currentMessage, isLoading, requests>>
    /\ AppFrame

\* await pdf.getPage(i) settles
NativeGetPageSettled(u) ==
    /\ variant = "native"
    /\ uploads[u].pc = "getPage"
    /\ LET up == uploads[u]
           page == up.file.pages[up.i]
       IN  IF page.kind = "getPage"
           THEN NativeUploadFailed(u, page.error)
           ELSE /\ uploads' = [uploads EXCEPT ![u].pc = "getTextContent"]
                /\ UNCHANGED <<pdfText, messages>>
    /\ UNCHANGED <<pdfFile, numPages, currentMessage, isLoading, requests>>
    /\ AppFrame

\* await page.getTextContent() settles; the page text is appended
NativeGetTextContentSettled(u) ==
    /\ variant = "native"
    /\ uploads[u].pc = "getTextContent"
    /\ LET up == uploads[u]
           page == up.file.pages[up.i]
       IN  IF page.kind = "getTextContent"
           THEN NativeUploadFailed(u, page.error)
           ELSE NativeLoopNext(u,
                   [up EXCEPT !.fullText = @ \o NativePageText(page) \o <<"\n", "\n">>])
    /\ UNCHANGED <<pdfFile, numPages, currentMessage, isLoading, requests>>
    /\ AppFrame

-----------------------------------------------------------------------------
(* The extraction on its own: one component, uploads only                   *)

ExtractInit ==
    /\ DecodeIdle
    /\ NormalizeIdle
    /\ \E v \in {"web", "native"} : AppConstructed(v, FALSE, TRUE)

ExtractNext ==
    \/ Len(uploads) < MaxUploads /\ \E file \in Files : HandleFileUpload(file)
    \/ \E u \in DOMAIN uploads : \E ms \in Durations : WebArrayBufferSettled(u, ms)
    \/ \E u \in DOMAIN uploads : \E ms \in Durations : WebGetDocumentSettled(u, ms)
    \/ \E u \in DOMAIN uploads : \E ms \in Durations : WebGetPageSettled(u, ms)
    \/ \E u \in DOMAIN uploads : \E ms \in Durations : WebGetTextContentSettled(u, ms)
    \/ Len(uploads) < MaxUploads /\ \E file \in Files : NativeHandleFileUpload(file)
    \/ \E u \in DOMAIN uploads : NativeArrayBufferSettled(u)
    \/ \E u \in DOMAIN uploads : NativeGetDocumentSettled(u)
    \/ \E u \in DOMAIN uploads : NativeGetPageSettled(u)
    \/ \E u \in DOMAIN uploads : NativeGetTextContentSettled(u)

SpecExtract == ExtractInit /\ [][ExtractNext]_vars

-----------------------------------------------------------------------------
(* Properties of the extraction                                             *)

\* the call has opened its document: its loop runs or has ended
Opened(up) ==
    \/ up.pc \in {"getPage", "getTextContent", "done"}
    \/ /\ up.pc = "failed"
       /\ up.file.readError = NoError
       /\ up.file.openError = NoError

\* what page k of the file contributes: its text, or the placeholder of its error
PageSegment(file, k) ==
    IF file.pages[k].kind = "text"
    THEN Join([j \in 1..Len(file.pages[k].items) |->
                  IF file.pages[k].items[j].t = "string"
                  THEN file.pages[k].items[j].s ELSE <<>>], <<" ">>)
    ELSE ErrorPlaceholder(k, file.pages[k].error)

\* what follows each page segment in the component v
PageTerminator(v) == IF v = "web" THEN <<"\n">> ELSE <<"\n", "\n">>

\* the segments of pages 1..n, each followed by the terminator
RECURSIVE SegmentsUpTo(_, _, _)
SegmentsUpTo(v, file, n) ==
    IF n = 0 THEN <<>>
    ELSE SegmentsUpTo(v, file, n - 1) \o PageSegment(file, n) \o PageTerminator(v)

\* the pages before page i whose reading fails
FailedBefore(file, i) == {k \in 1..(i - 1) : file.pages[k].kind # "text"}

\* C6: when reading a page fails, the page contributes its placeholder, the
\* failure is counted and the extraction goes on: an opened document is never
\* given up, and its text holds a segment for every page handled so far.
C6_PageFailureTolerated ==
    \A u \in DOMAIN uploads :
        LET up == uploads[u]
        IN  Opened(up) =>
               /\ up.pc # "failed"
               /\ up.pagesWithErrors = Cardinality(FailedBefore(up.file, up.i))
               /\ up.fullText = SegmentsUpTo(variant, up.file, up.i - 1)

\* C7, the bound: the loop index never passes N + 1, so at most N page steps.
C7_AtMostNPageSteps ==
    \A u \in DOMAIN uploads :
        Opened(uploads[u]) => uploads[u].i \in 1..(Len(uploads[u].file.pages) + 1)

\* C7: once the document is opened, the extraction ends by returning a full
\* text after at most N page steps, also when pages fail.
C7_ExtractionReturns ==
    /\ []C7_AtMostNPageSteps
    /\ \A u \in 1..MaxUploads :
          (u \in DOMAIN uploads /\ Opened(uploads[u]))
             ~> (u \in DOMAIN uploads /\ uploads[u].pc = "done")

\* C8: the pages are handled one at a time in increasing order: with the loop
\* at page i the text holds the segments of pages 1..i-1 in page order, and
\* the text of a finished extraction holds exactly N segments, whether or not
\* pages failed.
C8_SegmentsInPageOrder ==
    \A u \in DOMAIN uploads :
        LET up == uploads[u]
            n == Len(up.file.pages)
        IN  /\ up.pc \in {"getPage", "getTextContent"} =>
                  /\ up.i \in 1..n
                  /\ up.fullText = SegmentsUpTo(variant, up.file, up.i - 1)
            /\ up.pc = "done" =>
                  /\ up.i = n + 1
                  /\ up.fullText = SegmentsUpTo(variant, up.file, n)

\* a two-page document whose first page failed and whose second was read
C8_Witness ==
    \E u \in DOMAIN uploads :
        /\ variant = "web"
        /\ uploads[u].pc = "done"
        /\ Len(uploads[u].file.pages) = 2
        /\ uploads[u].file.pages[1].kind = "getPage"
        /\ uploads[u].file.pages[2].kind = "text"
        /\ uploads[u].pagesWithErrors = 1
        /\ pdfText = uploads[u].fullText

\* C9: in the full text consecutive page texts are separated by a pair of
\* newlines.
C9_NewlinePairBetweenPages ==
    \A u \in DOMAIN uploads :
        LET up == uploads[u]
            n == Len(up.file.pages)
            joined == Join([k \in 1..n |-> PageSegment(up.file, k)], <<"\n", "\n">>)
        IN  up.pc = "done" =>
               \E tail \in {<<>>, <<"\n">>, <<"\n", "\n">>} :
                   up.fullText = joined \o tail

\* the uploads with every step taken that can be taken
SpecExtractFair == SpecExtract /\ WF_vars(ExtractNext)

-----------------------------------------------------------------------------
(* sendMessage of the web component (ResearchBuddy.tsx)                     *)

\* .replace(/```json|```/g, "")
RECURSIVE RemoveFences(_)
RemoveFences(s) ==
    LET j == IndexOfFrom(s, Fence, 1)
        n == IF StartsWithAt(s, j, FenceOpen) THEN Len(FenceOpen) ELSE Len(Fence)
    IN  IF j = 0 THEN s
        ELSE SubSeq(s, 1, j - 1) \o RemoveFences(SubSeq(s, j + n, Len(s)))

\* .replace(/^\s*\{|\}\s*$/g, ""): an opening brace at the start and a closing
\* brace at the end, with the white space around them
StripOuterBraces(s) ==
    LET p == SkipSet(s, 1, JsWhitespace)
        lead == IF p <= Len(s) /\ s[p] = "{" THEN p ELSE 0
        closers == {j \in (lead + 1)..Len(s) :
                       /\ s[j] = "}"
                       /\ \A k \in (j + 1)..Len(s) : s[k] \in JsWhitespace}
        cut == IF closers = {} THEN Len(s) + 1
               ELSE CHOOSE j \in closers : \A k \in closers : j <= k
    IN  SubSeq(s, lead + 1, cut - 1)

\* the end of a match of "response"\s*:\s*" at position j (0 if none); /i
ResponseLabelEnd(s, j) ==
    LET word == <<"\"">> \o ResponseWord \o <<"\"">>
        c == SkipSet(s, j + Len(word), JsWhitespace)
        q == SkipSet(s, c + 1, JsWhitespace)
    IN  IF /\ StartsWithAtI(s, j, word)
           /\ c <= Len(s) /\ s[c] = ":"
           /\ q <= Len(s) /\ s[q] = "\""
        THEN q ELSE 0

\* .replace(/"response"\s*:\s*"/i, ""): the first label is removed
RemoveQuotedLabel(s) ==
    LET hits == {j \in 1..Len(s) : ResponseLabelEnd(s, j) # 0}
        j == CHOOSE h \in hits : \A k \in hits : h <= k
    IN  IF hits = {} THEN s
        ELSE SubSeq(s, 1, j - 1) \o SubSeq(s, ResponseLabelEnd(s, j) + 1, Len(s))

\* .replace(/"\s*\}\s*$/, ""): a closing quote and brace at the end
RemoveClosingQuoteBrace(s) ==
    LET hits == {j \in 1..Len(s) :
                    /\ s[j] = "\""
                    /\ LET b == SkipSet(s, j + 1, JsWhitespace)
                       IN  /\ b <= Len(s) /\ s[b] = "}"
                           /\ \A k \in (b + 1)..Len(s) : s[k] \in JsWhitespace}
    IN  IF hits = {} THEN s
        ELSE SubSeq(s, 1, (CHOOSE h \in hits : \A k \in hits : h <= k) - 1)

\* cleanText of the inner catch
CleanText(text) ==
    Trim(ReplaceAllLit(
            ReplaceAllLit(
               RemoveClosingQuoteBrace(
                  RemoveQuotedLabel(StripOuterBraces(RemoveFences(text)))),
               <<"\\", "n">>, <<"\n">>),
            <<"\\", "\"">>, <<"\"">>))

\* the response object of generateContent: its three places for the text
ResponseOf(text, candidateText, responseText) ==
    [text |-> text, candidateText |-> candidateText, responseText |-> responseText]

\* response.text || candidates?.[0]?.content?.parts?.[0]?.text
\*               || response.response?.text || ""
ResponseText(response) ==
    IF Truthy(response.text) THEN response.text
    ELSE IF Truthy(response.candidateText) THEN response.candidateText
    ELSE IF Truthy(response.responseText) THEN response.responseText
    ELSE JsonString(<<>>)

\* the inner catch: the cleaned text, or a fixed sentence when nothing is left
CleanedOrSentence(cleanText) ==
    IF cleanText # <<>> THEN JsonString(cleanText)
    ELSE JsonString(<<"I'm having trouble formatting my response properly. Could you please rephrase your question or try again?">>)

\* aiResponse.response || the fixed sentence
ResponseOrSentence(field) ==
    IF Truthy(field) THEN field
    ELSE JsonString(<<"I received your message but the response format was incomplete. Please try asking again.">>)

\* the try block around the decoding: reading .response of null or undefined
\* throws, as does the decoder, and the inner catch takes over
ReplyOf(text, decoded) ==
    IF decoded.thrown \/ decoded.val.t \in {"null", "undefined"}
    THEN CleanedOrSentence(CleanText(text))
    ELSE ResponseOrSentence(GetResponse(decoded.val))

\* the content of the assistant turn for a response text that is not empty
ReplyContent(text) == ReplyOf(text, parseJsonFromMarkdown(text))

Err_EmptyResponse == ErrorOf(<<"E", "r", "r", "o", "r">>, <<"E", "m", "p",
                                                            "t", "y", " ",
                                                            "r", "e", "s",
                                                            "p", "o", "n",
                                                            "s", "e", " ",
                                                            "f", "r", "o",
                                                            "m", " ", "A",
                                                            "I", " ", "s",
                                                            "e", "r", "v",
                                                            "i", "c", "e">>)

Err_Fetch == ErrorOf(<<"T", "y", "p", "e", "E", "r", "r", "o", "r">>, <<"f",
                                                                        "e",
                                                                        "t",
                                                                        "c",
                                                                        "h",
                                                                        " ",
                                                                        "f",
                                                                        "a",
                                                                        "i",
                                                                        "l",
                                                                        "e",
                                                                        "d">>)

Err_Quota == ErrorOf(<<"A", "p", "i", "E", "r", "r", "o", "r">>, <<"q", "u",
                                                                   "o", "t",
                                                                   "a", " ",
                                                                   "e", "x",
                                                                   "c", "e",
                                                                   "e", "d",
                                                                   "e", "d">>)

\* the user-facing sentence for an error caught by sendMessage
SendFailureText(error) ==
    IF ~error.isError
    THEN <<"I apologize, but I encountered an error while processing your request.">>
    ELSE IF Includes(error.message, <<"A", "P", "I", " ", "k", "e", "y">>)
    THEN <<"There's an issue with the API configuration. Please check your setup.">>
    ELSE IF \/ Includes(error.message, <<"n", "e", "t", "w", "o", "r", "k">>)
            \/ Includes(error.message, <<"f", "e", "t", "c", "h">>)
    THEN <<"Network connection error. Please check your internet connection and try again.">>
    ELSE IF \/ Includes(error.message, <<"r", "a", "t", "e", " ", "l", "i",
                                         "m", "i", "t">>)
            \/ Includes(error.message, <<"q", "u", "o", "t", "a">>)
    THEN <<"API rate limit exceeded. Please wait a moment before trying again.">>
    ELSE IF Includes(error.message, <<"E", "m", "p", "t", "y", " ", "r", "e",
                                      "s", "p", "o", "n", "s", "e">>)
    THEN <<"The AI service returned an empty response. Please try rephrasing your question.">>
    ELSE <<"An unexpected error occurred. Please try again or rephrase your question.">>

\* the outer catch without the finally: isLoading stays as it is
SendFailed_NoFinally(r, error, ms) ==
    /\ messages' = Append(messages,
          Assistant(SendFailureText(error) \o TechnicalDetails(error, <<"Time">>, ms)))
    /\ isLoading' = isLoading
    /\ requests' = [requests EXCEPT ![r] = [@ EXCEPT !.pc = "failed", !.thrown = error]]

\* the outer catch and the finally of sendMessage
SendFailed(r, error, ms) ==
    /\ messages' = Append(messages,
          Assistant(SendFailureText(error) \o TechnicalDetails(error, <<"Time">>, ms)))
    /\ isLoading' = FALSE
    /\ requests' = [requests EXCEPT ![r] = [@ EXCEPT !.pc = "failed", !.thrown = error]]

MaxSends == 1

\* the body of sendMessage up to its await
SendMessage ==
    /\ IF Trim(currentMessage) = <<>>
       THEN UNCHANGED <<messages, currentMessage, isLoading, requests>>
       ELSE IF ~apiKey
       THEN /\ messages' = Append(messages,
                  Assistant(<<"<U+274C> API key not configured. Please check your environment variables.">>))
            /\ requests' = Append(requests,
                  [pc |-> "returned", paper |-> pdfText, history |-> messages,
                   thrown |-> NoError])
            /\ UNCHANGED <<currentMessage, isLoading>>
       ELSE /\ messages' = Append(messages, UserTurn(currentMessage))
            /\ currentMessage' = <<>>
            /\ isLoading' = TRUE
            /\ requests' = Append(requests,
                  [pc |-> "generateContent", paper |-> pdfText,
                   history |-> Append(messages, UserTurn(currentMessage)),
                   thrown |-> NoError])
    /\ UNCHANGED <<documentVars, uploads>>
    /\ AppFrame

\* onChange of the input box, enabled once a document is stored
ChangeDraft(text) ==
    /\ variant = "web"
    /\ pdfFile # JsonNull
    /\ currentMessage' = text
    /\ UNCHANGED <<messages, isLoading, documentVars, uploads, requests>>
    /\ AppFrame

\* the send button, disabled without a draft, while loading or without a document
ClickSend ==
    /\ variant = "web"
    /\ Trim(currentMessage) # <<>>
    /\ ~isLoading
    /\ pdfFile # JsonNull
    /\ SendMessage

\* handleKeyPress: Enter in the input box
PressEnter ==
    /\ variant = "web"
    /\ pdfFile # JsonNull
    /\ SendMessage

\* await gemini.models.generateContent(...) resolves
GenerateContentResolved(r, response, ms) ==
    /\ variant = "web"
    /\ requests[r].pc = "generateContent"
    /\ IF ~Truthy(ResponseText(response))
       THEN SendFailed(r, Err_EmptyResponse, ms)
       ELSE /\ messages' = Append(messages,
                  [role |-> "assistant",
                   content |-> ReplyContent(ResponseText(response).s)])
            /\ isLoading' = FALSE
            /\ requests' = [requests EXCEPT ![r].pc = "done"]
    /\ UNCHANGED <<currentMessage, documentVars, uploads>>
    /\ AppFrame

\* await gemini.models.generateContent(...) rejects
GenerateContentRejected(r, error, ms) ==
    /\ variant = "web"
    /\ requests[r].pc = "generateContent"
    /\ SendFailed(r, error, ms)
    /\ UNCHANGED <<currentMessage, documentVars, uploads>>
    /\ AppFrame

\* the Clear button, shown while the conversation is not empty
ClearChat ==
    /\ variant = "web"
    /\ messages # <<>>
    /\ messages' = <<>>
    /\ currentMessage' = <<>>
    /\ UNCHANGED <<isLoading, documentVars, uploads, requests>>
    /\ AppFrame

-----------------------------------------------------------------------------
(* The web component: uploads and sends interleaved                         *)

\* a document of three pages, each a long run of letters
LargeDocument ==
    FileOf(PdfMime, SmallSize, NoError, NoError,
           <<PageOk(<<TextItem(<<LongRun>>)>>), PageOk(<<TextItem(<<LongRun>>)>>),
             PageOk(<<TextItem(<<LongRun>>)>>)>>)

\* the files offered to the component
ChatFiles ==
    {FileOf(PdfMime, SmallSize, NoError, NoError, <<PageOk(<<TextItem(<<"a">>)>>)>>),
     FileOf(PdfMime, SmallSize, NoError, NoError, <<PageFails("getPage", Err_Boom)>>),
     FileOf(PdfMime, SmallSize, NoError, Err_InvalidPdf, <<>>),
     FileOf(<<"text/plain">>, SmallSize, NoError, NoError, <<>>),
     LargeDocument}

\* the drafts typed into the input box
Drafts == {<<>>, <<" ">>, <<"q">>}

Rsp_Object == <<"{", "\"">> \o ResponseWord \o <<"\"", ":", "\"", "H", "i", "\"", "}">>

Rsp_NumberField == <<"{", "\"">> \o ResponseWord \o <<"\"", ":", "1", "}">>

Rsp_EmptyField == <<"{", "\"">> \o ResponseWord \o <<"\"", ":", "\"", "\"", "}">>

Rsp_Null == <<"n", "u", "l", "l">>

Rsp_FencedNull == FenceOpen \o <<"\n">> \o Rsp_Null \o <<"\n">> \o Fence

Rsp_Plain == <<"o", "k">>

Rsp_Blank == <<" ">>

\* the response texts of the completion service
ResponseTexts ==
    {Rsp_Object, Ex_FencedHi, Rsp_NumberField, Rsp_EmptyField, Rsp_Null,
     Rsp_FencedNull, Rsp_Plain, Rsp_Blank}

\* the response objects: the text at each of the three places, or at none
Responses ==
    {ResponseOf(JsonString(t), JsonUndefined, JsonUndefined) : t \in ResponseTexts}
    \cup {ResponseOf(JsonUndefined, JsonString(Rsp_Object), JsonUndefined),
          ResponseOf(JsonString(<<>>), JsonUndefined, JsonString(Rsp_Plain)),
          ResponseOf(JsonString(<<>>), JsonUndefined, JsonUndefined)}

\* what a rejected generateContent throws
Rejections == {Err_Fetch, Err_Quota, Err_Boom, NonError}

\* the duration every step of the component is given
ChatDurations == {12}

Init ==
    /\ DecodeIdle
    /\ NormalizeIdle
    /\ \E dev \in BOOLEAN : \E key \in BOOLEAN :
          (dev => key) /\ AppConstructed("web", dev, key)

Next ==
    \/ Len(uploads) < MaxUploads /\ \E file \in ChatFiles : HandleFileUpload(file)
    \/ \E u \in DOMAIN uploads : \E ms \in ChatDurations : WebArrayBufferSettled(u, ms)
    \/ \E u \in DOMAIN uploads : \E ms \in ChatDurations : WebGetDocumentSettled(u, ms)
    \/ \E u \in DOMAIN uploads : \E ms \in ChatDurations : WebGetPageSettled(u, ms)
    \/ \E u \in DOMAIN uploads : \E ms \in ChatDurations : WebGetTextContentSettled(u, ms)
    \/ \E text \in Drafts : ChangeDraft(text)
    \/ Len(requests) < MaxSends /\ ClickSend
    \/ Len(requests) < MaxSends /\ PressEnter
    \/ \E r \in DOMAIN requests : \E response \in Responses : \E ms \in ChatDurations :
          GenerateContentResolved(r, response, ms)
    \/ \E r \in DOMAIN requests : \E error \in Rejections : \E ms \in ChatDurations :
          GenerateContentRejected(r, error, ms)
    \/ ClearChat

Spec == Init /\ [][Next]_vars

-----------------------------------------------------------------------------
(* The web component in a long conversation                                 *)

MaxLongSends == 16

\* the document of the long conversation
SmallDocument ==
    FileOf(PdfMime, SmallSize, NoError, NoError, <<PageOk(<<TextItem(<<"a">>)>>)>>)

\* the drafts typed in the long conversation
LongChatDrafts == {<<>>, <<"q">>}

\* the response every send of the long conversation is given
LongChatResponse == ResponseOf(JsonString(Rsp_Object), JsonUndefined, JsonUndefined)

LongChatNext ==
    \/ Len(uploads) < MaxUploads /\ HandleFileUpload(SmallDocument)
    \/ \E u \in DOMAIN uploads : \E ms \in ChatDurations : WebArrayBufferSettled(u, ms)
    \/ \E u \in DOMAIN uploads : \E ms \in ChatDurations : WebGetDocumentSettled(u, ms)
    \/ \E u \in DOMAIN uploads : \E ms \in ChatDurations : WebGetPageSettled(u, ms)
    \/ \E u \in DOMAIN uploads : \E ms \in ChatDurations : WebGetTextContentSettled(u, ms)
    \/ \E text \in LongChatDrafts : ChangeDraft(text)
    \/ Len(requests) < MaxLongSends /\ ClickSend
    \/ \E r \in DOMAIN requests : \E ms \in ChatDurations :
          GenerateContentResolved(r, LongChatResponse, ms)

SpecLongChat == Init /\ [][LongChatNext]_vars

-----------------------------------------------------------------------------
(* Properties of sendMessage                                                *)

\* C3: every send whose request resolves with a response text that is not
\* empty appends exactly one turn, an assistant turn whose content is a
\* non-empty string, and the send does not end in its error handler.
C3_ResolvedSendAppendsReply ==
    [][\A r \in DOMAIN requests : \A response \in Responses : \A ms \in ChatDurations :
          (Truthy(ResponseText(response)) /\ GenerateContentResolved(r, response, ms))
             => /\ Len(messages') = Len(messages) + 1
                /\ SubSeq(messages', 1, Len(messages)) = messages
                /\ messages'[Len(messages')].role = "assistant"
                /\ messages'[Len(messages')].content.t = "string"
                /\ messages'[Len(messages')].content.s # <<>>
                /\ requests'[r].pc = "done"]_vars

-----------------------------------------------------------------------------
(* markdownToText of the native component (ResearchBuddyNative.tsx)         *)

\* ^ under /m: the start of the text or the position after a line terminator
AtLineStart(s, i) == i = 1 \/ (i > 1 /\ i <= Len(s) + 1 /\ s[i - 1] \in LineTerminators)

\* $ under /m: the end of the text or the position of a line terminator
AtLineEnd(s, i) == i = Len(s) + 1 \/ (i >= 1 /\ i <= Len(s) /\ s[i] \in LineTerminators)

\* first position >= i whose character is in the set cs (Len(s)+1 if none)
SkipUntil(s, i, cs) ==
    LET stops == {j \in i..Len(s) : s[j] \in cs}
    IN  IF stops = {} THEN Max(i, Len(s) + 1)
        ELSE CHOOSE j \in stops : \A k \in stops : j <= k

\* a match of one pattern at one position: where it ends and what replaces it
Matched(end, out) == [ok |-> TRUE, end |-> end, out |-> out]

\* where (.+) may start after \s+ at p: behind the longest run of white space,
\* or, when that run reaches the end of the text, at the last character of the
\* run that . accepts, the run keeping one character at least (0 if nowhere)
RestStart(s, p) ==
    LET q == SkipSet(s, p, JsWhitespace)
        back == {k \in (p + 1)..Len(s) : s[k] \notin LineTerminators}
    IN  IF q = p \/ p > Len(s) THEN 0
        ELSE IF q <= Len(s) THEN q
        ELSE IF back = {} THEN 0
        ELSE CHOOSE k \in back : \A j \in back : k >= j

\* the group (.+) from position start to the end of its line, with the text
\* the replacement puts before and after it
LineFrom(s, start, before, after) ==
    IF start = 0 THEN NoMatch
    ELSE Matched(SkipUntil(s, start, LineTerminators) - 1,
                 before
                 \o SubSeq(s, start, SkipUntil(s, start, LineTerminators) - 1)
                 \o after)

\* \s+(.+)$ at p
RestOfLine(s, p, before, after) == LineFrom(s, RestStart(s, p), before, after)

\* open([^x]+)close at i, x the first character of close: the body is the run
\* of characters other than x, and close has to follow it
Enclosed(s, i, open, close) ==
    LET j == i + Len(open)
        r == SkipUntil(s, j, {close[1]})
    IN  IF StartsWithAt(s, i, open) /\ r > j /\ StartsWithAt(s, r, close)
        THEN Matched(r + Len(close) - 1, SubSeq(s, j, r - 1))
        ELSE NoMatch

\* /<fence>[\s\S]*?\n([\s\S]*?)<fence>/ at i: the first newline behind the
\* opening fence, then the first fence behind that newline
FencedBlockAt(s, i) ==
    LET n == IndexOfFrom(s, <<"\n">>, i + Len(Fence))
        c == IF n = 0 THEN 0 ELSE IndexOfFrom(s, Fence, n + 1)
    IN  IF StartsWithAt(s, i, Fence) /\ c # 0
        THEN Matched(c + Len(Fence) - 1, SubSeq(s, n + 1, c - 1))
        ELSE NoMatch

\* /^#{1,6}\s+(.+)$/m at i
HeaderAt(s, i) ==
    LET h == SkipSet(s, i, {"#"})
    IN  IF AtLineStart(s, i) /\ h - i \in 1..6
        THEN RestOfLine(s, h, <<>>, <<>>) ELSE NoMatch

\* /^\s*[\*\-\+]\s+(.+)$/m at i, replaced by "- $1"
BulletAt(s, i) ==
    LET q == SkipSet(s, i, JsWhitespace)
    IN  IF AtLineStart(s, i) /\ q <= Len(s) /\ s[q] \in {"*", "-", "+"}
        THEN RestOfLine(s, q + 1, <<"-", " ">>, <<>>) ELSE NoMatch

\* /^\s*\d+\.\s+(.+)$/m at i, replaced by "- $1"
NumberedAt(s, i) ==
    LET q == SkipSet(s, i, JsWhitespace)
        d == SkipSet(s, q, Digits)
    IN  IF AtLineStart(s, i) /\ d > q /\ d <= Len(s) /\ s[d] = "."
        THEN RestOfLine(s, d + 1, <<"-", " ">>, <<>>) ELSE NoMatch

\* /\[([^\]]+)\]\([^)]+\)/ at i: the link text is kept
LinkAt(s, i) ==
    LET text == Enclosed(s, i, <<"[">>, <<"]">>)
        target == IF text.ok THEN Enclosed(s, text.end + 1, <<"(">>, <<")">>)
                  ELSE NoMatch
    IN  IF target.ok THEN Matched(target.end, text.out) ELSE NoMatch

\* /^>\s+(.+)$/m at i, replaced by "$1" in double quotes
BlockquoteAt(s, i) ==
    IF AtLineStart(s, i) /\ i <= Len(s) /\ s[i] = ">"
    THEN RestOfLine(s, i + 1, <<"\"">>, <<"\"">>) ELSE NoMatch

\* /\n{3,}/ at i, replaced by two newlines
BlankLinesAt(s, i) ==
    LET r == SkipSet(s, i, {"\n"})
    IN  IF r - i >= 3 THEN Matched(r - 1, <<"\n", "\n">>) ELSE NoMatch

\* /[ \t]+$/m at i
TrailingSpaceAt(s, i) ==
    LET r == SkipSet(s, i, {" ", "\t"})
    IN  IF r > i /\ AtLineEnd(s, r) THEN Matched(r - 1, <<>>) ELSE NoMatch

\* /^[ \t]+/m at i
LeadingSpaceAt(s, i) ==
    LET r == SkipSet(s, i, {" ", "\t"})
    IN  IF AtLineStart(s, i) /\ r > i THEN Matched(r - 1, <<>>) ELSE NoMatch

\* the replacements of markdownToText in the order of the source
Rules ==
    <<"fenced", "code", "header", "bolditalic", "bold", "italic", "boldalt",
      "italicalt", "bullet", "numbered", "link", "bracket", "blockquote",
      "blanklines", "trailing", "leading">>

\* the pattern of a rule tried at position i
MatchAt(rule, s, i) ==
    CASE rule = "fenced" -> FencedBlockAt(s, i)
      [] rule = "code" -> Enclosed(s, i, <<Backtick>>, <<Backtick>>)
      [] rule = "header" -> HeaderAt(s, i)
      [] rule = "bolditalic" -> Enclosed(s, i, <<"*", "*", "*">>, <<"*", "*", "*">>)
      [] rule = "bold" -> Enclosed(s, i, <<"*", "*">>, <<"*", "*">>)
      [] rule = "italic" -> Enclosed(s, i, <<"*">>, <<"*">>)
      [] rule = "boldalt" -> Enclosed(s, i, <<"_", "_">>, <<"_", "_">>)
      [] rule = "italicalt" -> Enclosed(s, i, <<"_">>, <<"_">>)
      [] rule = "bullet" -> BulletAt(s, i)
      [] rule = "numbered" -> NumberedAt(s, i)
      [] rule = "link" -> LinkAt(s, i)
      [] rule = "bracket" -> Enclosed(s, i, <<"[">>, <<"]">>)
      [] rule = "blockquote" -> BlockquoteAt(s, i)
      [] rule = "blanklines" -> BlankLinesAt(s, i)
      [] rule = "trailing" -> TrailingSpaceAt(s, i)
      [] rule = "leading" -> LeadingSpaceAt(s, i)

\* String.prototype.replace with a /g pattern, from position i on: the matches
\* are taken from left to right and do not overlap
RECURSIVE ReplaceFrom(_, _, _)
ReplaceStep(rule, s, i, m) ==
    IF m.ok THEN m.out \o ReplaceFrom(rule, s, m.end + 1)
    ELSE <<s[i]>> \o ReplaceFrom(rule, s, i + 1)

ReplaceFrom(rule, s, i) ==
    IF i > Len(s) THEN <<>> ELSE ReplaceStep(rule, s, i, MatchAt(rule, s, i))

\* the first n replacements applied one after the other
RECURSIVE ApplyRules(_, _)
ApplyRules(text, n) ==
    IF n = 0 THEN text ELSE ReplaceFrom(Rules[n], ApplyRules(text, n - 1), 1)

\* markdownToText: "" for the empty string, else every replacement and trim
markdownToText(md) ==
    IF md = <<>> THEN <<>> ELSE Trim(ApplyRules(md, Len(Rules)))

-----------------------------------------------------------------------------
(* markdownToText applied once and again                                    *)

\* the characters the generated texts are made of
NormalizeAlphabet == {" ", "\n", ">", "[", "]", "*", "_", "a"}

\* how long a generated text is at most
MaxNormLen == 3

RECURSIVE TextsOfLen(_)
TextsOfLen(n) ==
    IF n = 0 THEN {<<>>}
    ELSE {Append(t, c) : t \in TextsOfLen(n - 1), c \in NormalizeAlphabet}

Ex_NestedBrackets == <<"[", "[", "a", "]", "]">>

Ex_NestedQuote == <<">", " ", ">", " ", "a">>

Ex_IndentedQuote == <<" ", ">", " ", "a">>

Ex_NestedEmphasis == <<"*", "*", "_", "a", "_", "*", "*">>

Ex_QuotedList == <<">", " ", "-", " ", "a", "\n", "#", " ", "b">>

\* the texts markdownToText is called with
NormalizeInputs ==
    UNION {TextsOfLen(n) : n \in 0..MaxNormLen}
    \cup {Ex_NestedBrackets, Ex_NestedQuote, Ex_IndentedQuote, Ex_NestedEmphasis,
          Ex_QuotedList}

NormalizeInit ==
    /\ DecodeIdle
    /\ AppConstructed("native", FALSE, TRUE)
    /\ mdInput \in NormalizeInputs
    /\ mdStep = 0
    /\ mdOnce = <<>>
    /\ mdTwice = <<>>

\* markdownToText(x)
MarkdownToText ==
    /\ mdStep = 0
    /\ mdOnce' = markdownToText(mdInput)
    /\ mdStep' = 1
    /\ UNCHANGED <<mdInput, mdTwice, decodeVars, appVars>>

\* markdownToText(markdownToText(x))
MarkdownToTextAgain ==
    /\ mdStep = 1
    /\ mdTwice' = markdownToText(mdOnce)
    /\ mdStep' = 2
    /\ UNCHANGED <<mdInput, mdOnce, decodeVars, appVars>>

NormalizeNext == MarkdownToText \/ MarkdownToTextAgain

SpecNormalize == NormalizeInit /\ [][NormalizeNext]_vars

\* C10: markdownToText is idempotent: applied to its own result it returns
\* that result, for every text, nested brackets, nested emphasis and nested
\* quote markers included.
C10_Idempotent == mdStep = 2 => mdTwice = mdOnce

-----------------------------------------------------------------------------
(* The prompt of a send and the ceilings of the specification               *)

\* the characters of the web prompt around the paper and the history
PromptFrameLength == 769

\* prompt.length of the request of a send of the web component
PromptLength(request) ==
    PromptFrameLength + Length(request.paper) + HistoryLength(request.history)

\* generateContent was called for the request
Dispatched(request) == request.pc \in {"generateContent", "done", "failed"}

\* the step is a send that records the request new, with the document text
\* and the shown history it was made from
SendRecords(new) ==
    /\ Len(requests') = Len(requests) + 1
    /\ new = requests'[Len(requests')]
    /\ new.pc # "returned"

\* the ceilings of the context budget
WholePromptCeiling == 200000

DocumentCeiling == 100000

DocumentTarget == 95000

BoundaryWindow == 80000

HistoryCeiling == 30

HistoryHead == 3

HistoryTail == 25

\* the annotation put where a document text was cut
TruncationMarker == <<"<truncation marker>">>

\* the lengths of the text before each pair of newlines
ParagraphBoundaries(text) ==
    {Length(SubSeq(text, 1, j - 1)) :
        j \in {k \in 1..(Len(text) - 1) : text[k] = "\n" /\ text[k + 1] = "\n"}}

\* where a text over the ceiling is cut: at the last paragraph boundary
\* behind the window and not behind the target, else at the target
CutLength(text) ==
    LET near == {b \in ParagraphBoundaries(text) :
                    b > BoundaryWindow /\ b <= DocumentTarget}
    IN  IF near = {} THEN DocumentTarget
        ELSE CHOOSE b \in near : \A c \in near : b >= c

\* placed is the text cut at CutLength and followed by the marker
DocumentCut(placed, text) ==
    \E j \in 0..Len(text) :
        /\ Length(SubSeq(text, 1, j)) = CutLength(text)
        /\ placed = SubSeq(text, 1, j) \o TruncationMarker

\* placed is the first turns of the history, one turn that is none of its
\* turns, and its most recent turns
HistoryCondensed(placed, history) ==
    /\ Len(placed) = HistoryHead + 1 + HistoryTail
    /\ SubSeq(placed, 1, HistoryHead) = SubSeq(history, 1, HistoryHead)
    /\ \A k \in 1..Len(history) : placed[HistoryHead + 1] # history[k]
    /\ SubSeq(placed, HistoryHead + 2, Len(placed))
          = SubSeq(history, Len(history) - HistoryTail + 1, Len(history))

\* C11: the prompt of every request sent to the completion service is within
\* the whole-prompt ceiling, whatever the document text and the history.
C11_PromptWithinCeiling ==
    \A r \in DOMAIN requests :
        Dispatched(requests[r]) => PromptLength(requests[r]) <= WholePromptCeiling

\* C12: a send with a document text over the document ceiling places in its
\* request the text cut at the paragraph boundary behind the window, else at
\* the target length, followed by the truncation marker.
C12_DocumentTextCut ==
    [][\A new \in {requests'[k] : k \in DOMAIN requests'} :
          (SendRecords(new) /\ Length(pdfText) > DocumentCeiling)
             => DocumentCut(new.paper, pdfText)]_vars

\* C13: a send with more than 30 turns of history places in its request the
\* first 3 turns, one synthetic turn and the most recent 25 turns, and the
\* history shown keeps every turn.
C13_HistoryCondensed ==
    [][\A new \in {requests'[k] : k \in DOMAIN requests'} :
          (SendRecords(new) /\ Len(messages) + 1 > HistoryCeiling)
             => /\ HistoryCondensed(new.history,
                                    Append(messages, UserTurn(currentMessage)))
                /\ messages' = Append(messages, UserTurn(currentMessage))]_vars

\* C14: a send whose prompt would exceed the whole-prompt ceiling fails with
\* a ContextTooLargeError and generateContent is not called for it.
C14_TooLargeNotDispatched ==
    \A r \in DOMAIN requests :
        PromptLength(requests[r]) > WholePromptCeiling
           => /\ ~Dispatched(requests[r])
              /\ requests[r].thrown.isError
              /\ requests[r].thrown.name = <<"C", "o", "n", "t", "e", "x",
                                             "t", "T", "o", "o", "L", "a",
                                             "r", "g", "e", "E", "r", "r",
                                             "o", "r">>

\* the history before a step is the beginning of the history after it
HistoryKept(before, after) ==
    /\ Len(after) >= Len(before)
    /\ SubSeq(after, 1, Len(before)) = before

\* C15: every step other than Clear keeps every turn of the shown history,
\* unchanged and in its place; turns are only added behind them.
C15_AppendOnly == [][ClearChat \/ HistoryKept(messages, messages')]_vars

-----------------------------------------------------------------------------
(* sendMessage of the native component (ResearchBuddyNative.tsx)            *)

\* sendMessage putting the turn of the user in front of the history
NativeSendMessage_Prepends ==
    /\ IF Trim(currentMessage) = <<>> \/ ~apiKey
       THEN UNCHANGED <<messages, currentMessage, isLoading, requests>>
       ELSE /\ messages' = <<UserTurn(currentMessage)>> \o messages
            /\ currentMessage' = <<>>
            /\ isLoading' = TRUE
            /\ requests' = Append(requests,
                  [pc |-> "generateContent", paper |-> pdfText,
                   question |-> currentMessage, thrown |-> NoError])
    /\ UNCHANGED <<documentVars, uploads>>
    /\ AppFrame

\* the body of sendMessage up to its await: the prompt holds the document
\* text and the draft, no history
NativeSendMessage ==
    /\ IF Trim(currentMessage) = <<>> \/ ~apiKey
       THEN UNCHANGED <<messages, currentMessage, isLoading, requests>>
       ELSE /\ messages' = Append(messages, UserTurn(currentMessage))
            /\ currentMessage' = <<>>
            /\ isLoading' = TRUE
            /\ requests' = Append(requests,
                  [pc |-> "generateContent", paper |-> pdfText,
                   question |-> currentMessage, thrown |-> NoError])
    /\ UNCHANGED <<documentVars, uploads>>
    /\ AppFrame

\* onChange of the input box, enabled once a document is stored
NativeChangeDraft(text) ==
    /\ variant = "native"
    /\ pdfFile # JsonNull
    /\ currentMessage' = text
    /\ UNCHANGED <<messages, isLoading, documentVars, uploads, requests>>
    /\ AppFrame

\* the send button, disabled without a draft, while loading or without a document
NativeClickSend ==
    /\ variant = "native"
    /\ Trim(currentMessage) # <<>>
    /\ ~isLoading
    /\ pdfFile # JsonNull
    /\ NativeSendMessage

\* handleKeyPress: Enter in the input box
NativePressEnter ==
    /\ variant = "native"
    /\ pdfFile # JsonNull
    /\ NativeSendMessage

\* response.text || the fixed sentence
NativeResponseText(response) ==
    IF Truthy(response.text) THEN response.text.s
    ELSE <<"Sorry, I couldn't generate a response.">>

\* await gemini.models.generateContent(...) resolves
NativeGenerateContentResolved(r, response) ==
    /\ variant = "native"
    /\ requests[r].pc = "generateContent"
    /\ messages' = Append(messages,
          Assistant(markdownToText(NativeResponseText(response))))
    /\ isLoading' = FALSE
    /\ requests' = [requests EXCEPT ![r].pc = "done"]
    /\ UNCHANGED <<currentMessage, documentVars, uploads>>
    /\ AppFrame

\* the sentence of the catch of sendMessage, whatever was caught
NativeSendFailureText == <<"Sorry, I encountered an error. Please try again.">>

\* await gemini.models.generateContent(...) rejects: the catch and the finally
NativeGenerateContentRejected(r, error) ==
    /\ variant = "native"
    /\ requests[r].pc = "generateContent"
    /\ messages' = Append(messages, Assistant(NativeSendFailureText))
    /\ isLoading' = FALSE
    /\ requests' = [requests EXCEPT ![r] = [@ EXCEPT !.pc = "failed", !.thrown = error]]
    /\ UNCHANGED <<currentMessage, documentVars, uploads>>
    /\ AppFrame

\* the Clear button, shown while the conversation is not empty
NativeClearChat ==
    /\ variant = "native"
    /\ messages # <<>>
    /\ messages' = <<>>
    /\ currentMessage' = <<>>
    /\ UNCHANGED <<isLoading, documentVars, uploads, requests>>
    /\ AppFrame

-----------------------------------------------------------------------------
(* Both components: one upload and the sends behind it                      *)

Err_InvalidHeader == ErrorOf(<<"F", "o", "r", "m", "a", "t", "E", "r", "r", "o", "r">>, <<"I", "n", "v", "a", "l", "i", "d", " ", "P", "D", "F", " ", "h", "e", "a", "d", "e", "r">>)

\* the files offered: a document without pages and two that cannot be opened
SendFiles ==
    {FileOf(PdfMime, SmallSize, NoError, NoError, <<>>),
     FileOf(PdfMime, SmallSize, NoError, Err_InvalidPdf, <<>>),
     FileOf(PdfMime, SmallSize, NoError, Err_InvalidHeader, <<>>)}

\* the response objects of the completion service: the text at the first
\* place, at the second place only, and at none
SendResponses ==
    {ResponseOf(JsonString(Rsp_Object), JsonUndefined, JsonUndefined),
     ResponseOf(JsonUndefined, JsonString(Rsp_Object), JsonUndefined),
     ResponseOf(JsonString(<<>>), JsonUndefined, JsonUndefined)}

Err_Offline == ErrorOf(<<"E", "r", "r", "o", "r">>, <<"n", "e", "t", "w", "o", "r", "k", " ", "d", "o", "w", "n">>)

\* what a rejected generateContent throws: two network errors and a quota error
SendRejections == {Err_Fetch, Err_Offline, Err_Quota}

SendInit ==
    /\ DecodeIdle
    /\ NormalizeIdle
    /\ \E v \in {"web", "native"} : \E dev \in BOOLEAN : AppConstructed(v, dev, TRUE)

\* the call of generateContent of some request resolves
Resolved(responses) ==
    \/ \E r \in DOMAIN requests : \E response \in responses :
          \E ms \in ChatDurations : GenerateContentResolved(r, response, ms)
    \/ \E r \in DOMAIN requests : \E response \in responses :
          NativeGenerateContentResolved(r, response)

\* the call of generateContent of some request rejects
Rejected(errors) ==
    \/ \E r \in DOMAIN requests : \E error \in errors :
          \E ms \in ChatDurations : GenerateContentRejected(r, error, ms)
    \/ \E r \in DOMAIN requests : \E error \in errors :
          NativeGenerateContentRejected(r, error)

\* a step of either component, given the files, responses, errors and drafts
\* offered and the numbers of uploads and sends explored
ChatStep(files, responses, errors, drafts, maxUploads, maxSends) ==
    \/ Len(uploads) < maxUploads /\ \E file \in files : HandleFileUpload(file)
    \/ \E u \in DOMAIN uploads : \E ms \in ChatDurations : WebArrayBufferSettled(u, ms)
    \/ \E u \in DOMAIN uploads : \E ms \in ChatDurations : WebGetDocumentSettled(u, ms)
    \/ Len(uploads) < maxUploads /\ \E file \in files : NativeHandleFileUpload(file)
    \/ \E u \in DOMAIN uploads : NativeArrayBufferSettled(u)
    \/ \E u \in DOMAIN uploads : NativeGetDocumentSettled(u)
    \/ \E text \in drafts : ChangeDraft(text)
    \/ \E text \in drafts : NativeChangeDraft(text)
    \/ Len(requests) < maxSends /\ ClickSend
    \/ Len(requests) < maxSends /\ PressEnter
    \/ Len(requests) < maxSends /\ NativeClickSend
    \/ Len(requests) < maxSends /\ NativePressEnter
    \/ Resolved(responses)
    \/ Rejected(errors)

\* a step with one upload, one send and the drafts "" and "q"
SendStep(files, responses, errors) ==
    ChatStep(files, responses, errors, LongChatDrafts, MaxUploads, MaxSends)

SendNext == SendStep(SendFiles, SendResponses, SendRejections)

SpecSend == SendInit /\ [][SendNext]_vars

\* the sends behind the upload of one document, answered with a text, with
\* no text or with a network error
SettleNext ==
    SendStep({FileOf(PdfMime, SmallSize, NoError, NoError, <<>>)},
             {ResponseOf(JsonString(Rsp_Object), JsonUndefined, JsonUndefined),
              ResponseOf(JsonString(<<>>), JsonUndefined, JsonUndefined)},
             {Err_Fetch})

SpecSettle == SendInit /\ [][SettleNext]_vars

\* no call of generateContent stays pending for ever: it resolves, or else it
\* rejects (a rejection is possible exactly while a call is pending)
SpecSettleFair == SpecSettle /\ WF_vars(Rejected({Err_Fetch}))

\* every send that awaits generateContent
Sends == 1..MaxSends

\* the step takes request r out of its await
LeavesAwait(r) ==
    /\ r \in DOMAIN requests
    /\ requests[r].pc = "generateContent"
    /\ requests'[r].pc # "generateContent"

FailureClass(error) ==
    IF ~error.isError THEN "unknown"
    ELSE IF \/ Includes(error.message, <<"n", "e", "t", "w", "o", "r", "k">>)
            \/ Includes(error.message, <<"f", "e", "t", "c", "h">>)
    THEN "network"
    ELSE IF \/ Includes(error.message, <<"r", "a", "t", "e", " ", "l", "i",
                                         "m", "i", "t">>)
            \/ Includes(error.message, <<"q", "u", "o", "t", "a">>)
    THEN "rate limit"
    ELSE IF Includes(error.message, <<"E", "m", "p", "t", "y", " ", "r", "e",
                                      "s", "p", "o", "n", "s", "e">>)
    THEN "empty response"
    ELSE "unknown"

\* the turn the running component appends when its sendMessage catches error
FailureTurn(error, ms) ==
    IF variant = "web"
    THEN Assistant(SendFailureText(error) \o TechnicalDetails(error, <<"Time">>, ms))
    ELSE Assistant(NativeSendFailureText)

\* the errors a send can end with
SendFailures == SendRejections \cup {Err_EmptyResponse, Err_Boom, NonError}

\* the step ends request r as failed
FailsIn(r) ==
    /\ r \in DOMAIN requests
    /\ requests[r].pc = "generateContent"
    /\ requests'[r].pc = "failed"

\* C17: the turn appended for a caught error of one class differs from the
\* turn the component appends for an error of any other of the classes
\* network, rate limit, empty response and unknown.
C17_ClassesDistinct ==
    [][\A r \in Sends :
          FailsIn(r)
             => \A other \in SendFailures : \A ms \in ChatDurations :
                   FailureClass(other) # FailureClass(requests'[r].thrown)
                      => messages'[Len(messages')] # FailureTurn(other, ms)]_vars

\* the turn the running component appends when its handleFileUpload catches error
UploadFailureTurn(error, ms) ==
    IF variant = "web"
    THEN Assistant(UploadFailureText(error)
                   \o TechnicalDetails(error, <<"Processing time">>, ms))
    ELSE Assistant(<<"Sorry, there was an error processing your PDF. Please try again.">>)

\* an error of the same class with another name and another message
Twin(error) ==
    CASE error = Err_Fetch -> Err_Offline
      [] error = Err_Offline -> Err_Fetch
      [] error = Err_InvalidPdf -> Err_InvalidHeader
      [] error = Err_InvalidHeader -> Err_InvalidPdf
      [] error = ExtractionError(Err_InvalidPdf) -> ExtractionError(Err_InvalidHeader)
      [] error = ExtractionError(Err_InvalidHeader) -> ExtractionError(Err_InvalidPdf)
      [] OTHER -> error

\* the turn holds neither the name nor the message of the error
SaysNothingOf(turn, error) ==
    error.isError => /\ ~Includes(turn.content.s, error.name)
                     /\ ~Includes(turn.content.s, error.message)

\* the step ends the call of handleFileUpload u as failed
UploadFailsIn(u) ==
    /\ u \in DOMAIN uploads
    /\ uploads[u].pc # "failed"
    /\ uploads'[u].pc = "failed"

\* C18: with the development flag off, the turn appended when a send or an
\* upload fails holds neither the name nor the message of the error, and it is
\* the turn appended for an error of the same class with other raw text.
C18_NoRawErrorText ==
    [][~devMode
          => /\ \A r \in Sends :
                   FailsIn(r)
                      => /\ SaysNothingOf(messages'[Len(messages')], requests'[r].thrown)
                         /\ \A ms \in ChatDurations :
                               messages'[Len(messages')]
                                  = FailureTurn(Twin(requests'[r].thrown), ms)
             /\ \A u \in 1..MaxUploads :
                   UploadFailsIn(u)
                      => /\ SaysNothingOf(messages'[Len(messages')], uploads'[u].thrown)
                         /\ \A ms \in ChatDurations :
                               messages'[Len(messages')]
                                  = UploadFailureTurn(Twin(uploads'[u].thrown), ms)]_vars

\* with the flag off, a send of the web component failed on a network error
\* and its upload failed on a file that is no PDF
C18_Witness ==
    /\ ~devMode
    /\ variant = "web"
    /\ \E r \in DOMAIN requests :
          requests[r].pc = "failed" /\ requests[r].thrown = Err_Offline
    /\ \E u \in DOMAIN uploads :
          uploads[u].pc = "failed" /\ uploads[u].thrown = Err_InvalidHeader

\* the places of a response where its text is looked for, in order
AccessPaths == <<"text", "candidateText", "responseText">>

\* the text at the first place that holds a string that is not empty
FirstText(response) ==
    LET found == {k \in DOMAIN AccessPaths : Truthy(response[AccessPaths[k]])}
    IN  IF found = {} THEN <<>>
        ELSE response[AccessPaths[CHOOSE k \in found : \A j \in found : k <= j]].s

\* the turn the running component appends for a response text
ReplyTurn(text) ==
    IF variant = "web"
    THEN [role |-> "assistant", content |-> ReplyContent(text)]
    ELSE Assistant(markdownToText(text))

\* the step is the resolution of the call of request r with response
ResolvesWith(r, response) ==
    \/ \E ms \in ChatDurations : GenerateContentResolved(r, response, ms)
    \/ NativeGenerateContentResolved(r, response)

\* C19: a resolved call is answered from the text at the first of the three
\* places that holds one; when none does, the send fails with the
\* empty-response error and nothing is made of the response.
C19_FirstTextOrEmptyError ==
    [][\A r \in Sends : \A response \in SendResponses :
          (r \in DOMAIN requests /\ ResolvesWith(r, response))
             => IF FirstText(response) = <<>>
                THEN /\ requests'[r].pc = "failed"
                     /\ FailureClass(requests'[r].thrown) = "empty response"
                ELSE /\ requests'[r].pc = "done"
                     /\ messages'[Len(messages')] = ReplyTurn(FirstText(response))]_vars

\* the file is no PDF by its type, or it is larger than the limit
Refused(file) == file.type # PdfMime \/ file.size > MaxSizeMB * BytesPerMB

\* the step is a call of handleFileUpload with the file
UploadCalled(file) ==
    /\ Len(uploads') = Len(uploads) + 1
    /\ uploads'[Len(uploads')].file = file

\* C20: a call of handleFileUpload with a file that is no PDF or that is
\* larger than 50 MB returns without starting the extraction; it appends one
\* assistant turn and leaves the stored file, text and page count as they are.
C20_RefusedNotExtracted ==
    [][\A file \in Files :
          (UploadCalled(file) /\ Refused(file))
             => /\ uploads'[Len(uploads')].pc = "returned"
                /\ Len(messages') = Len(messages) + 1
                /\ SubSeq(messages', 1, Len(messages)) = messages
                /\ messages'[Len(messages')].role = "assistant"
                /\ UNCHANGED <<pdfFile, pdfText, numPages>>]_vars

\* C21: the step in which a call of handleFileUpload fails clears the stored
\* file, the extracted text and the page count, and it appends one assistant
\* turn behind the history.
C21_FailureDiscardsDocument ==
    [][\A u \in 1..MaxUploads :
          UploadFailsIn(u)
             => /\ pdfFile' = JsonNull
                /\ pdfText' = <<>>
                /\ numPages' = JsonNull
                /\ Len(messages') = Len(messages) + 1
                /\ SubSeq(messages', 1, Len(messages)) = messages
                /\ messages'[Len(messages')].role = "assistant"]_vars

-----------------------------------------------------------------------------
(* Both components: two sends with different drafts                         *)

MaxOrderSends == 2

\* the drafts typed: two questions
OrderDrafts == {<<"q">>, <<"r">>}

\* the flag of the development mode is off: no step of the sends reads it
\* unless a call fails
OrderInit ==
    /\ DecodeIdle
    /\ NormalizeIdle
    /\ \E v \in {"web", "native"} : AppConstructed(v, FALSE, TRUE)

\* the upload of a document without pages, the sends and their answers
OrderNext ==
    \/ Len(uploads) < MaxUploads
          /\ HandleFileUpload(FileOf(PdfMime, SmallSize, NoError, NoError, <<>>))
    \/ \E u \in DOMAIN uploads : \E ms \in ChatDurations : WebArrayBufferSettled(u, ms)
    \/ \E u \in DOMAIN uploads : \E ms \in ChatDurations : WebGetDocumentSettled(u, ms)
    \/ Len(uploads) < MaxUploads
          /\ NativeHandleFileUpload(FileOf(PdfMime, SmallSize, NoError, NoError, <<>>))
    \/ \E u \in DOMAIN uploads : NativeArrayBufferSettled(u)
    \/ \E u \in DOMAIN uploads : NativeGetDocumentSettled(u)
    \/ \E text \in OrderDrafts : ChangeDraft(text)
    \/ \E text \in OrderDrafts : NativeChangeDraft(text)
    \/ Len(requests) < MaxOrderSends /\ ClickSend
    \/ Len(requests) < MaxOrderSends /\ PressEnter
    \/ Len(requests) < MaxOrderSends /\ NativeClickSend
    \/ Len(requests) < MaxOrderSends /\ NativePressEnter
    \/ Resolved({ResponseOf(JsonString(Rsp_Object), JsonUndefined, JsonUndefined)})

SpecOrder == OrderInit /\ [][OrderNext]_vars

\* the draft a request was made for
QuestionOf(request) ==
    IF variant = "web" THEN request.history[Len(request.history)].content.s
    ELSE request.question

\* the drafts of the sends in the order of the calls
Questions == [k \in DOMAIN requests |-> QuestionOf(requests[k])]

\* the contents of the turns of the user in the history
RECURSIVE UserContents(_)
UserContents(history) ==
    IF history = <<>> THEN <<>>
    ELSE IF Head(history).role = "user"
    THEN <<Head(history).content.s>> \o UserContents(Tail(history))
    ELSE UserContents(Tail(history))

\* a is b with some elements left out
RECURSIVE IsSubsequence(_, _)
IsSubsequence(a, b) ==
    IF a = <<>> THEN TRUE
    ELSE IF b = <<>> THEN FALSE
    ELSE IF Head(a) = Head(b) THEN IsSubsequence(Tail(a), Tail(b))
    ELSE IsSubsequence(a, Tail(b))

\* the step appends a turn of the assistant and is no step of an upload
AssistantTurnAppended ==
    /\ uploads' = uploads
    /\ Len(messages') = Len(messages) + 1
    /\ messages'[Len(messages')].role = "assistant"

Attempted(k) == \E i \in 1..Len(tried) : tried[i] = k

\* C23: the parse of the whole raw text is attempted only when no fenced json
\* block was found; with a fenced block in the text the raw text is never
\* parsed directly.
C23_RawParseOnlyWithoutFence ==
    Attempted("2") => ~FencedContents(markdown).ok

\* ---------------------------------------------------------------------------
\* The last resort
\* ---------------------------------------------------------------------------

\* the text m without the structural punctuation and without a response label
\* at its start
Salvaged(m) ==
    LET a == Trim(RemoveChars(m, {"{", "}", "\"", "[", "]"}))
    IN  IF StartsWithAtI(a, 1, ResponseWord) THEN Trim(RemoveResponseLabel(a))
        ELSE a

\* the call under way was answered by the last resort
LastResortReturned ==
    /\ dpc = "returned"
    /\ tried # <<>>
    /\ tried[Len(tried)] = "4"

\* C24: the response of the last resort is the raw text without the structural
\* punctuation and without a leading response label, cut to 800 characters,
\* and it is the fixed apology exactly when nothing remains of the text.
C24_LastResortResponse ==
    LastResortReturned =>
        /\ Salvaged(markdown) # <<>>
              => result = ResponseObject(Substring0(Salvaged(markdown), SalvageLimit))
        /\ Salvaged(markdown) = <<>> <=> result = ResponseObject(ApologyText)

\* ---------------------------------------------------------------------------
\* The sanitized parse and the double quote
\* ---------------------------------------------------------------------------

\* v is an object with a member named response
HasResponseField(v) ==
    /\ v.t = "object"
    /\ \E i \in 1..Len(v.members) : v.members[i].k = ResponseWord

\* the call under way found a fenced block and holds its contents in jsonStr
HoldsFencedContents ==
    /\ dpc \in {"1a", "1b", "1c", "2", "3", "4", "returned"}
    /\ FencedContents(markdown).ok

\* C30: on fenced contents that hold a double quote the sanitized parse fails,
\* and the sanitized-parse strategy never returns an object with a response
\* field.
C30_SanitizedParseFailsOnQuote ==
    /\ (HoldsFencedContents /\ \E i \in 1..Len(jsonStr) : jsonStr[i] = "\"")
          => ~SanitizedParse(jsonStr).ok
    /\ (dpc = "returned" /\ tried # <<>> /\ tried[Len(tried)] = "1b")
          => ~HasResponseField(result)

\* the sanitized parse was attempted on the contents of the block with the
\* line break, failed, and the field pattern answered
C30_Witness ==
    /\ markdown = Ex_FencedNewline
    /\ tried = <<"1a", "1b", "1c">>
    /\ dpc = "returned"
    /\ result = ResponseObject(<<"H", "\n", "i">>)

-----------------------------------------------------------------------------
(* Both components: uploads, sends and Clear overlapping                    *)

\* the uploads and the sends explored while calls overlap
MaxRaceUploads == 2

MaxRaceSends == 2

\* a second document of one page, with another text than SmallDocument
OtherDocument ==
    FileOf(PdfMime, SmallSize, NoError, NoError, <<PageOk(<<TextItem(<<"b">>)>>)>>)

\* a file that getDocument refuses and a file that is not a PDF: after either
\* the drop zone is rendered again
RaceFiles ==
    {SmallDocument, OtherDocument,
     FileOf(PdfMime, SmallSize, NoError, Err_InvalidPdf, <<>>),
     FileOf(<<"text/plain">>, SmallSize, NoError, NoError, <<>>)}

RaceInit ==
    /\ DecodeIdle
    /\ NormalizeIdle
    /\ \E v \in {"web", "native"} : AppConstructed(v, FALSE, TRUE)

\* every handler of the two components and every await of their calls, with no
\* order imposed between the calls under way
RaceNext ==
    \/ Len(uploads) < MaxRaceUploads /\ \E file \in RaceFiles : HandleFileUpload(file)
    \/ \E u \in DOMAIN uploads : \E ms \in ChatDurations : WebArrayBufferSettled(u, ms)
    \/ \E u \in DOMAIN uploads : \E ms \in ChatDurations : WebGetDocumentSettled(u, ms)
    \/ \E u \in DOMAIN uploads : \E ms \in ChatDurations : WebGetPageSettled(u, ms)
    \/ \E u \in DOMAIN uploads : \E ms \in ChatDurations : WebGetTextContentSettled(u, ms)
    \/ Len(uploads) < MaxRaceUploads
          /\ \E file \in RaceFiles : NativeHandleFileUpload(file)
    \/ \E u \in DOMAIN uploads : NativeArrayBufferSettled(u)
    \/ \E u \in DOMAIN uploads : NativeGetDocumentSettled(u)
    \/ \E u \in DOMAIN uploads : NativeGetPageSettled(u)
    \/ \E u \in DOMAIN uploads : NativeGetTextContentSettled(u)
    \/ ChangeDraft(<<"q">>)
    \/ NativeChangeDraft(<<"q">>)
    \/ Len(requests) < MaxRaceSends /\ ClickSend
    \/ Len(requests) < MaxRaceSends /\ PressEnter
    \/ Len(requests) < MaxRaceSends /\ NativeClickSend
    \/ Len(requests) < MaxRaceSends /\ NativePressEnter
    \/ Resolved({ResponseOf(JsonString(Rsp_Object), JsonUndefined, JsonUndefined)})
    \/ ClearChat
    \/ NativeClearChat

SpecRace == RaceInit /\ [][RaceNext]_vars

\* the requests whose call of generateContent has not settled
Outstanding == {r \in DOMAIN requests : requests[r].pc = "generateContent"}

\* C25: the sends are serialized: at most one request is outstanding in every
\* reachable state, whether the send comes from the button or from Enter.
C25_SingleFlight == Cardinality(Outstanding) <= 1

\* C26: isLoading is true exactly when at least one request is outstanding,
\* under every interleaving of sends, completions and uploads.
C26_LoadingExact == isLoading <=> Outstanding # {}

\* the history holds the user turn that request r sent
HoldsQuestionOf(r) ==
    \E i \in 1..Len(messages) : messages[i] = UserTurn(QuestionOf(requests[r]))

\* C27: Clear leaves the history empty, an empty history stays empty until a
\* send or a step of an upload, and a reply is appended only to a history that
\* holds the user turn it answers, also when Clear is pressed while a request
\* is outstanding.
C27_ClearedUntilSendOrUpload ==
    [][/\ (ClearChat \/ NativeClearChat) => messages' = <<>>
       /\ (messages = <<>> /\ messages' # <<>>)
             => (Len(requests') > Len(requests) \/ uploads' # uploads)
       /\ \A r \in 1..MaxRaceSends : LeavesAwait(r) => HoldsQuestionOf(r)]_vars

\* C28: a reply is appended only while the stored text is the text its prompt
\* was built with: the reply to a question about one document never enters
\* the conversation of a document uploaded after the send.
C28_ReplyOfLoadedDocument ==
    [][\A r \in 1..MaxRaceSends :
          LeavesAwait(r) => requests[r].paper = pdfText]_vars

\* every call of handleFileUpload that was started has ended
UploadsFinished ==
    /\ uploads # <<>>
    /\ \A u \in DOMAIN uploads : uploads[u].pc \in {"done", "failed", "returned"}

\* C29: once every upload that was started has finished, the stored text is
\* the text extracted from the stored file, or no file and no text are stored,
\* however the steps of two uploads interleave.
C29_TextOfStoredFile ==
    UploadsFinished =>
        \/ pdfFile = JsonNull /\ pdfText = <<>>
        \/ \E u \in DOMAIN uploads :
              /\ uploads[u].pc = "done"
              /\ uploads[u].file = pdfFile
              /\ uploads[u].fullText = pdfText

====
